---- MODULE Spec2Model ----
(***************************************************************************)
(* Hold detection service of cragheads-route-identifier.                   *)
(*                                                                         *)
(* The model covers services/image_processor.py (the detection pipeline    *)
(* run on the single worker thread of ImageProcessor._executor),           *)
(* services/background_removal_service.py (_remove_background_sync) and    *)
(* the request handlers identify_route (routers/images.py) and             *)
(* visualize_route (routers/visualization.py).                             *)
(*                                                                         *)
(* Pictures are modelled at the level of uniformly coloured rectangular    *)
(* blobs on a grey background.  Blobs lie further apart than the reach of  *)
(* every structuring element, so that the OpenCV library calls have an     *)
(* exact closed form on them (given with each operator below).             *)
(***************************************************************************)
EXTENDS Integers, Sequences, FiniteSets, TLC

(* ------------------------------------------------------------------ *)
(* Bounds of the model                                                *)
(* ------------------------------------------------------------------ *)
\* picture width and height in pixels
ImgW == 40
ImgH == 40
\* number of service calls made one after the other in one behaviour
MaxCalls == 3
\* number of requests handled at the same time
MaxRequests == 2

(* ------------------------------------------------------------------ *)
(* ImageProcessor.__init__ : static configuration                     *)
(* ------------------------------------------------------------------ *)
\* insertion order of the color_ranges dict (the order of `.items()`)
ColorOrder ==
    <<"red", "blue", "green", "yellow", "purple", "orange", "pink", "white", "black">>

\* color_ranges[c] = <<lower, upper>>, each an (H, S, V) triple
color_ranges ==
    [c \in {ColorOrder[i] : i \in 1..Len(ColorOrder)} |->
        CASE c = "red"    -> << <<0, 100, 100>>,   <<10, 255, 255>> >>
          [] c = "blue"   -> << <<100, 100, 100>>, <<130, 255, 255>> >>
          [] c = "green"  -> << <<40, 100, 100>>,  <<80, 255, 255>> >>
          [] c = "yellow" -> << <<20, 100, 100>>,  <<30, 255, 255>> >>
          [] c = "purple" -> << <<130, 100, 100>>, <<160, 255, 255>> >>
          [] c = "orange" -> << <<10, 100, 100>>,  <<20, 255, 255>> >>
          [] c = "pink"   -> << <<150, 100, 100>>, <<170, 255, 255>> >>
          [] c = "white"  -> << <<0, 0, 200>>,     <<180, 30, 255>> >>
          [] c = "black"  -> << <<0, 0, 0>>,       <<180, 255, 30>> >>]

\* visualization_colors[c], the tuple exactly as written in the source
visualization_colors ==
    [c \in DOMAIN color_ranges |->
        CASE c = "red"    -> <<0, 0, 255>>
          [] c = "blue"   -> <<255, 0, 0>>
          [] c = "green"  -> <<0, 255, 0>>
          [] c = "yellow" -> <<0, 255, 255>>
          [] c = "purple" -> <<255, 0, 255>>
          [] c = "orange" -> <<0, 165, 255>>
          [] c = "pink"   -> <<255, 192, 203>>
          [] c = "white"  -> <<255, 255, 255>>
          [] c = "black"  -> <<0, 0, 0>>]

\* side of the square structuring elements
noise_kernel == 5
connect_kernel == 7
dilate_kernel == 15
\* chalk: value >= chalk_threshold and saturation <= chalk_saturation_threshold
chalk_threshold == 100
chalk_saturation_threshold == 50
\* the literal 100 of `cv2.contourArea(contour) < 100`
MinContourArea == 100

(* ------------------------------------------------------------------ *)
(* Values                                                             *)
(* ------------------------------------------------------------------ *)
\* Python's None
None == [none |-> TRUE]
\* a local variable that has not been assigned yet
Unset == [unset |-> TRUE]
\* no exception
NoExc == [type |-> "", at |-> "", message |-> "", status_code |-> 0]
\* the empty dict {}
EmptyDict == [c \in {} |-> <<>>]

\* a request that has not arrived: no handler runs, no token exists
NoRequest ==
    [endpoint |-> "", hpc |-> "idle", cancel_token |-> "none", disconnected |-> FALSE,
     job |-> "none", cancelled |-> FALSE]

\* the module-level service instances, each with a ThreadPoolExecutor of its
\* own (images.py line 14, visualization.py line 13, background.py line 9)
Services ==
    {"images.image_processor", "visualization.image_processor",
     "background.background_service"}

\* ThreadPoolExecutor(max_workers=1) at rest: the request whose job the one
\* worker thread runs (0: none) and the requests whose jobs wait
IdleExecutor == [running |-> 0, queue |-> <<>>]

Max2(a, b) == IF a >= b THEN a ELSE b
Min2(a, b) == IF a <= b THEN a ELSE b

(* ------------------------------------------------------------------ *)
(* State                                                              *)
(* ------------------------------------------------------------------ *)
VARIABLES
    calls,          \* number of service calls made so far
    method,         \* the service method of the current call
    image_data,     \* its image_data argument
    target_color,   \* its target_color argument ("" when it has none)
    cancel_token,   \* its cancel_token argument: "none", "clear" or "set"
    pc,             \* position of the current call and of its worker job
    img,            \* local img of the job
    color_idx,      \* position of `for color ...` in color_ranges.items()
    contours,       \* local contours of the current colour
    contour_idx,    \* position of `for contour in contours`
    holds,          \* local holds of the current colour
    results,        \* local results
    job_ret,        \* value returned by the job
    ret_line,       \* source line of the return statement the job took
    exc,            \* exception raised by the call
    ret,            \* value returned by the awaited service method
    first_run,      \* image_data and result of the first detection run to its end
    hpc,            \* position of the request handler ("none": no request)
    endpoint,       \* the route of the request
    content_type,   \* file.content_type
    color,          \* the form field `color`
    disconnected,   \* whether the client has gone (request.is_disconnected())
    raised,         \* the exception raised in the body of process_with_cancel
    status,         \* HTTP status of the response (0: none yet)
    detail,         \* detail of the error response
    body,           \* body of the successful response
    hold_mask,      \* local hold_mask of _remove_background_sync
    color_mask,     \* local color_mask of _create_hold_mask
    holds_by_color, \* the holds_by_color argument of a renderer
    visualization,  \* the picture a renderer has drawn
    handlers,       \* the requests being handled at the same time
    executors,      \* the worker pool of each service instance
    all_routes      \* image_data and value of the last identify_all_routes that returned

vars == <<calls, method, image_data, target_color, cancel_token, pc, img, color_idx,
          contours, contour_idx, holds, results, job_ret, ret_line, exc, ret, first_run,
          hpc, endpoint, content_type, color, disconnected, raised, status, detail,
          body, hold_mask, color_mask, holds_by_color, visualization, handlers,
          executors, all_routes>>

locals == <<img, color_idx, contours, contour_idx, holds, results, hold_mask, color_mask>>
args == <<method, image_data, target_color, cancel_token>>
request == <<endpoint, content_type, color>>
response == <<raised, status, detail, body>>
http == <<hpc, request, disconnected, response>>
render == <<holds_by_color, visualization>>
pool == <<handlers, executors>>
aux == <<render, pool, all_routes>>

(* ------------------------------------------------------------------ *)
(* OpenCV calls, on uniformly coloured blobs                          *)
(* ------------------------------------------------------------------ *)
\* cv2.cvtColor(image, cv2.COLOR_BGR2HSV) on one 8-bit pixel:
\* V = max, S = round(255 * diff / V), H = round(30 * num / diff) mod 180
BGR2HSV(bgr) ==
    LET b == bgr[1]
        g == bgr[2]
        r == bgr[3]
        v == Max2(b, Max2(g, r))
        mn == Min2(b, Min2(g, r))
        diff == v - mn
        s == IF v = 0 THEN 0 ELSE (2 * 255 * diff + v) \div (2 * v)
        num == IF v = r THEN g - b
               ELSE IF v = g THEN b - r + 2 * diff
               ELSE r - g + 4 * diff
        h0 == IF diff = 0 THEN 0 ELSE (2 * 30 * num + diff) \div (2 * diff)
        h == IF h0 < 0 THEN h0 + 180 ELSE h0
    IN  <<h, s, v>>

\* cv2.inRange on one pixel: every channel within the inclusive bounds
inRange(hsv, lower, upper) ==
    \A i \in 1..3 : lower[i] <= hsv[i] /\ hsv[i] <= upper[i]

\* chalk_mask membership of one pixel (line 70)
IsChalk(hsv) ==
    inRange(hsv, <<0, 0, chalk_threshold>>, <<180, chalk_saturation_threshold, 255>>)

\* cv2.morphologyEx(mask, MORPH_OPEN, ones(k,k)) on isolated rectangles: a
\* rectangle narrower or lower than the kernel is erased, any other is kept
MorphOpen(rects, k) == {b \in rects : b.w >= k /\ b.h >= k}

\* two rectangles over the same rows (or columns) with a gap narrower than k
\* between them
Joined(a, b, k) ==
    \/ a.y = b.y /\ a.h = b.h /\ a.x + a.w <= b.x /\ b.x - (a.x + a.w) < k
    \/ a.x = b.x /\ a.w = b.w /\ a.y + a.h <= b.y /\ b.y - (a.y + a.h) < k

\* the smallest rectangle around two rectangles
Hull(a, b) ==
    LET x0 == Min2(a.x, b.x)
        y0 == Min2(a.y, b.y)
        x1 == Max2(a.x + a.w, b.x + b.w)
        y1 == Max2(a.y + a.h, b.y + b.h)
    IN  [x |-> x0, y |-> y0, w |-> x1 - x0, h |-> y1 - y0]

\* cv2.morphologyEx(mask, MORPH_CLOSE, ones(k,k)) on rectangles: closing
\* fills the gaps narrower than the kernel, so two aligned rectangles less
\* than k pixels apart become one; rectangles at least k pixels apart are
\* left as they are
RECURSIVE MorphClose(_, _)
MorphClose(rects, k) ==
    IF \E a, b \in rects : Joined(a, b, k)
    THEN LET pair == CHOOSE ab \in rects \X rects : Joined(ab[1], ab[2], k)
         IN  MorphClose((rects \ {pair[1], pair[2]}) \cup {Hull(pair[1], pair[2])}, k)
    ELSE rects

\* cv2.contourArea of the outer contour of a w x h pixel rectangle: the
\* polygon through the corner pixel centres, of area (w-1)*(h-1)
contourArea(b) == (b.w - 1) * (b.h - 1)

\* cv2.boundingRect of that contour
boundingRect(b) == <<b.x, b.y, b.w, b.h>>

\* contour.reshape(-1, 2).tolist(): the corner points, from the top-left
\* corner, going down first (CHAIN_APPROX_SIMPLE)
ContourPoints(b) ==
    IF b.w = 1 /\ b.h = 1 THEN << <<b.x, b.y>> >>
    ELSE IF b.w = 1 THEN << <<b.x, b.y>>, <<b.x, b.y + b.h - 1>> >>
    ELSE IF b.h = 1 THEN << <<b.x, b.y>>, <<b.x + b.w - 1, b.y>> >>
    ELSE << <<b.x, b.y>>, <<b.x, b.y + b.h - 1>>,
            <<b.x + b.w - 1, b.y + b.h - 1>>, <<b.x + b.w - 1, b.y>> >>

\* cv2.dilate(mask, ones(k,k)) of one rectangle, clipped to the picture
Dilate(b, k, image) ==
    LET r == k \div 2
        x0 == Max2(0, b.x - r)
        y0 == Max2(0, b.y - r)
        x1 == Min2(image.width - 1, b.x + b.w - 1 + r)
        y1 == Min2(image.height - 1, b.y + b.h - 1 + r)
    IN  [x |-> x0, y |-> y0, w |-> x1 - x0 + 1, h |-> y1 - y0 + 1]

\* the pixels two rectangles share, as a rectangle (w or h <= 0 when none)
Intersect(a, b) ==
    LET x0 == Max2(a.x, b.x)
        y0 == Max2(a.y, b.y)
        x1 == Min2(a.x + a.w, b.x + b.w)
        y1 == Min2(a.y + a.h, b.y + b.h)
    IN  [x |-> x0, y |-> y0, w |-> x1 - x0, h |-> y1 - y0]

Geometry(b) == [x |-> b.x, y |-> b.y, w |-> b.w, h |-> b.h]

\* position of a rectangle's first pixel in the row-major scan
ScanPos(b, image) == b.y * image.width + b.x

\* the rectangles in the order of the row-major scan (down = FALSE) or in
\* its reverse (down = TRUE)
RECURSIVE ScanSorted(_, _, _)
ScanSorted(rects, image, down) ==
    IF rects = {} THEN <<>>
    ELSE LET first == CHOOSE b \in rects :
                         \A o \in rects :
                            IF down THEN ScanPos(o, image) <= ScanPos(b, image)
                            ELSE ScanPos(b, image) <= ScanPos(o, image)
         IN  <<first>> \o ScanSorted(rects \ {first}, image, down)

\* variant: the order of the contour list changes from one call to the next
findContours_Unstable(rects, image) == ScanSorted(rects, image, calls % 2 = 1)

\* cv2.findContours(mask, RETR_EXTERNAL, CHAIN_APPROX_SIMPLE) on isolated
\* rectangles: one contour per rectangle; the list holds the contours in the
\* reverse of the order in which the row-major scan meets them
findContours(rects, image) == ScanSorted(rects, image, TRUE)

(* ------------------------------------------------------------------ *)
(* Inputs                                                             *)
(* ------------------------------------------------------------------ *)
\* BGR pixel values used in the pictures
Red == <<0, 0, 255>>
Magenta == <<255, 0, 255>>
White == <<255, 255, 255>>
\* the wall: a grey that lies in no range of color_ranges and is not chalk
Background == <<60, 60, 60>>

\* blobs in the top-left corner of the picture: (w, h, colour)
CornerBlobs ==
    {[x |-> 0, y |-> 0, w |-> s[1], h |-> s[2], bgr |-> Red] :
        s \in {<<4, 11>>, <<10, 12>>, <<11, 11>>, <<11, 12>>}}
    \cup {[x |-> 0, y |-> 0, w |-> 11, h |-> 11, bgr |-> c] : c \in {Magenta, White}}

\* blobs touching the bottom-right corner of the picture
FarBlobs ==
    {[x |-> ImgW - 11, y |-> ImgH - 11, w |-> 11, h |-> 11, bgr |-> Red]}

\* further pixel values: a darker red, and a light grey that is both in the
\* range of "white" and chalk
DarkRed == <<0, 0, 200>>
LightGrey == <<220, 220, 220>>

\* a dark red hold with a strip of chalk on its right side
ChalkedHold ==
    {[x |-> 0, y |-> 0, w |-> 11, h |-> 11, bgr |-> DarkRed],
     [x |-> 11, y |-> 0, w |-> 4, h |-> 11, bgr |-> White]}

\* a hold that is covered with chalk all over
ChalkOnly == {[x |-> ImgW - 11, y |-> ImgH - 11, w |-> 11, h |-> 11, bgr |-> LightGrey]}

\* a red region of contour area 81 with a strip of chalk on its right side
SmallChalkedHold ==
    {[x |-> 0, y |-> 0, w |-> 10, h |-> 10, bgr |-> Red],
     [x |-> 10, y |-> 0, w |-> 4, h |-> 10, bgr |-> White]}

\* image_data: bytes that encode a picture, and bytes that encode none
Pictures ==
    {[decodable |-> TRUE, blobs |-> a \cup b, wall |-> Background] :
        a \in {{c} : c \in CornerBlobs}, b \in {{}} \cup {{f} : f \in FarBlobs}}

\* bytes that encode no picture
Undecodable == [decodable |-> FALSE, blobs |-> {}, wall |-> Background]

ImageInputs == Pictures \cup {Undecodable}

\* the pictures with chalk
ChalkPictures ==
    {[decodable |-> TRUE, blobs |-> b, wall |-> Background] :
        b \in {ChalkedHold, ChalkOnly, ChalkedHold \cup ChalkOnly, SmallChalkedHold}}

\* target_color values: recognised labels and labels that are not
TargetInputs == {"red", "pink", "teal"}

\* cancel_token values: None, or an asyncio.Event that is clear or set
TokenInputs == {"none", "clear", "set"}

\* cv2.imdecode(np.frombuffer(image_data), IMREAD_COLOR): the picture, or
\* None when the bytes encode none
imdecode(data) ==
    IF data.decodable
    THEN [width |-> ImgW, height |-> ImgH, blobs |-> data.blobs, wall |-> data.wall]
    ELSE None

\* the pixel positions of a picture, as <<x, y>>
Pixels(image) == (0..(image.width - 1)) \X (0..(image.height - 1))

\* the BGR value of one pixel of a decoded picture
PixelAt(image, p) ==
    IF \E b \in image.blobs : /\ b.x <= p[1] /\ p[1] < b.x + b.w
                              /\ b.y <= p[2] /\ p[2] < b.y + b.h
    THEN (CHOOSE b \in image.blobs : /\ b.x <= p[1] /\ p[1] < b.x + b.w
                                     /\ b.y <= p[2] /\ p[2] < b.y + b.h).bgr
    ELSE image.wall

\* cv2.imencode('.png', ...) and base64.b64encode: a lossless encoding of
\* the canvas
EncodePng(canvas) == [format |-> "png;base64", pixels |-> canvas]

(* ------------------------------------------------------------------ *)
(* ImageProcessor._process_image_sync, per colour                     *)
(* ------------------------------------------------------------------ *)
\* variant: the checkpoints do not look at the token
IsCancelled_Never(tok) == FALSE

\* variant: the checkpoints stop the job while the token is clear
IsCancelled_WhenClear(tok) == tok = "clear"

\* `cancel_token and cancel_token.is_set()`
IsCancelled(tok) == tok # "none" /\ tok = "set"

\* lines 79-83: inRange, then MORPH_OPEN and MORPH_CLOSE with noise_kernel
ColorMask(image, label) ==
    LET lower == color_ranges[label][1]
        upper == color_ranges[label][2]
        hit == {Geometry(b) : b \in {q \in image.blobs : inRange(BGR2HSV(q.bgr), lower, upper)}}
    IN  MorphClose(MorphOpen(hit, noise_kernel), noise_kernel)

\* line 70: the chalk pixels of the picture
ChalkMask(image) == {Geometry(b) : b \in {q \in image.blobs : IsChalk(BGR2HSV(q.bgr))}}

\* lines 86-96: the colour regions of area >= 100, dilated with dilate_kernel
DilatedHoldMask(image, label) ==
    {Dilate(b, dilate_kernel, image) :
        b \in {q \in ColorMask(image, label) : ~(contourArea(q) < MinContourArea)}}

\* variant: all the chalk of the picture is kept
ValidChalkMask_AllChalk(image, label) == ChalkMask(image)

\* line 99: chalk on or near a hold region
ValidChalkMask(image, label) ==
    {r \in {Intersect(c, d) : c \in ChalkMask(image), d \in DilatedHoldMask(image, label)} :
        r.w > 0 /\ r.h > 0}

\* lines 102-108: the combined mask and its contours
FinalContours(image, label) ==
    findContours(MorphClose(ColorMask(image, label) \cup ValidChalkMask(image, label),
                            connect_kernel), image)

\* number of pixels of a rectangle (0 when it is empty)
PixelCount(r) == IF r.w > 0 /\ r.h > 0 THEN r.w * r.h ELSE 0

\* over the blobs, the number of their pixels inside the contour (k = 0), or
\* the sum of channel k of those pixels (k = 1, 2, 3)
RECURSIVE PixelSum(_, _, _)
PixelSum(blobs, contour, k) ==
    IF blobs = {} THEN 0
    ELSE LET b == CHOOSE e \in blobs : TRUE
             n == PixelCount(Intersect(contour, Geometry(b)))
         IN  n * (IF k = 0 THEN 1 ELSE b.bgr[k]) + PixelSum(blobs \ {b}, contour, k)

\* variant: the mean is taken over all the pixels inside the contour
RepresentativeColor_WithChalk(image, contour, label) ==
    LET wall == PixelCount(contour) - PixelSum(image.blobs, contour, 0)
        total(k) == PixelSum(image.blobs, contour, k) + wall * image.wall[k]
    IN  [k \in 1..3 |-> total(k) \div PixelCount(contour)]

\* lines 120-130: the mean BGR of the non-chalk pixels inside the contour,
\* or visualization_colors[label] when there is none
RepresentativeColor(image, contour, label) ==
    LET solid == {b \in image.blobs : ~IsChalk(BGR2HSV(b.bgr))}
        wall == IF IsChalk(BGR2HSV(image.wall)) THEN 0
                ELSE PixelCount(contour) - PixelSum(image.blobs, contour, 0)
        count == PixelSum(solid, contour, 0) + wall
        total(k) == PixelSum(solid, contour, k) + wall * image.wall[k]
    IN  IF count > 0
        THEN [k \in 1..3 |-> total(k) \div count]
        ELSE visualization_colors[label]

\* variant: the centre is taken at x + w, y + h instead of x + w // 2, y + h // 2
MakeHold_CenterAtFarEdge(image, contour, label) ==
    LET br == boundingRect(contour)
    IN  [position |-> [x |-> br[1] + br[3], y |-> br[2] + br[4]],
         size |-> [width |-> br[3], height |-> br[4]],
         contour |-> ContourPoints(contour),
         color |-> RepresentativeColor(image, contour, label)]

\* lines 132-148: the hold descriptor of one contour
MakeHold(image, contour, label) ==
    LET br == boundingRect(contour)
        center_x == br[1] + br[3] \div 2
        center_y == br[2] + br[4] \div 2
    IN  [position |-> [x |-> center_x, y |-> center_y],
         size |-> [width |-> br[3], height |-> br[4]],
         contour |-> ContourPoints(contour),
         color |-> RepresentativeColor(image, contour, label)]


(* ------------------------------------------------------------------ *)
(* Initial state and calls                                            *)
(* ------------------------------------------------------------------ *)
Init ==
    /\ calls = 0
    /\ method = "none"
    /\ image_data = Unset
    /\ target_color = ""
    /\ cancel_token = "none"
    /\ pc = "idle"
    /\ img = Unset
    /\ color_idx = 0
    /\ contours = <<>>
    /\ contour_idx = 0
    /\ holds = <<>>
    /\ results = Unset
    /\ job_ret = Unset
    /\ ret_line = 0
    /\ exc = NoExc
    /\ ret = Unset
    /\ first_run = None
    /\ hpc = "none"
    /\ endpoint = ""
    /\ content_type = ""
    /\ color = ""
    /\ disconnected = FALSE
    /\ raised = NoExc
    /\ status = 0
    /\ detail = ""
    /\ body = Unset
    /\ hold_mask = Unset
    /\ color_mask = Unset
    /\ holds_by_color = Unset
    /\ visualization = Unset
    /\ handlers = [r \in 1..MaxRequests |-> NoRequest]
    /\ executors = [e \in Services |-> IdleExecutor]
    /\ all_routes = Unset

\* a fresh frame: no local is assigned, nothing is returned yet
FreshFrame ==
    /\ img' = Unset
    /\ color_idx' = 0
    /\ contours' = <<>>
    /\ contour_idx' = 0
    /\ holds' = <<>>
    /\ results' = Unset
    /\ hold_mask' = Unset
    /\ color_mask' = Unset
    /\ job_ret' = Unset
    /\ ret_line' = 0
    /\ ret' = Unset

\* the caller is between two calls
CanCall == pc \in {"idle", "done", "failed"} /\ calls < MaxCalls

(* ------------------------------------------------------------------ *)
(* ImageProcessor: the async entry points                             *)
(* ------------------------------------------------------------------ *)
\* process_image (lines 46-58): hand _process_image_sync to the executor
Invoke_process_image(data, tok) ==
    /\ method' = "process_image"
    /\ image_data' = data
    /\ target_color' = ""
    /\ cancel_token' = tok
    /\ FreshFrame
    /\ exc' = NoExc
    /\ pc' = "imdecode"

\* variant: the label is not validated
IsUnsupported_NoCheck(label) == FALSE

\* `target_color not in self.color_ranges` (line 167)
IsUnsupported(label) == label \notin DOMAIN color_ranges

\* get_route_by_color (lines 155-170): validate the label, then await
\* process_image
Invoke_get_route_by_color(data, label, tok) ==
    /\ method' = "get_route_by_color"
    /\ image_data' = data
    /\ target_color' = label
    /\ cancel_token' = tok
    /\ FreshFrame
    /\ IF IsUnsupported(label)
       THEN /\ pc' = "failed"
            /\ exc' = [type |-> "ValueError", at |-> "get_route_by_color",
                       message |-> "Unsupported color", status_code |-> 0]
       ELSE /\ pc' = "imdecode"
            /\ exc' = NoExc

\* a direct call of process_image
process_image(data, tok) ==
    /\ CanCall
    /\ hpc = "none"
    /\ calls' = calls + 1
    /\ Invoke_process_image(data, tok)
    /\ UNCHANGED <<first_run, http>>
    /\ UNCHANGED aux

\* a direct call of get_route_by_color
get_route_by_color(data, label, tok) ==
    /\ CanCall
    /\ hpc = "none"
    /\ calls' = calls + 1
    /\ Invoke_get_route_by_color(data, label, tok)
    /\ UNCHANGED <<first_run, http>>
    /\ UNCHANGED aux

(* ------------------------------------------------------------------ *)
(* ImageProcessor._process_image_sync, on the worker thread           *)
(* ------------------------------------------------------------------ *)
\* lines 63-64
Imdecode ==
    /\ pc = "imdecode"
    /\ img' = imdecode(image_data)
    /\ pc' = "cvtColor"
    /\ UNCHANGED <<calls, args, color_idx, contours, contour_idx, holds, results,
                   hold_mask, color_mask, job_ret, ret_line, exc, ret, first_run, http>>
    /\ UNCHANGED aux

\* lines 67-72: cvtColor fails on None; otherwise hsv, chalk_mask, results = {}
CvtColor ==
    /\ pc = "cvtColor"
    /\ IF img = None
       THEN /\ pc' = "raised"
            /\ exc' = [type |-> "cv2.error", at |-> "cvtColor",
                       message |-> "!_src.empty()", status_code |-> 0]
            /\ UNCHANGED <<results, color_idx>>
       ELSE /\ pc' = "for_color"
            /\ results' = EmptyDict
            /\ color_idx' = 1
            /\ exc' = NoExc
    /\ UNCHANGED <<calls, args, img, contours, contour_idx, holds, hold_mask, color_mask, job_ret,
                   ret_line, ret, first_run, http>>
    /\ UNCHANGED aux

\* the value of `return results` (line 153)
ReturnResults(res) == res

\* variant: a cancelled job returns what it has collected so far
CancelledResult_Partial(res) == res

\* the value of `return {}` at a checkpoint (lines 76 and 113), whatever
\* results holds by then
CancelledResult(res) == EmptyDict

\* lines 74-110 and 153: head of the colour loop
ForColor ==
    /\ pc = "for_color"
    /\ IF color_idx > Len(ColorOrder)
       THEN \* line 153
            /\ job_ret' = ReturnResults(results)
            /\ ret_line' = 153
            /\ pc' = "returned"
            /\ first_run' = IF first_run = None
                            THEN [data |-> image_data, result |-> ReturnResults(results)]
                            ELSE first_run
            /\ UNCHANGED <<contours, contour_idx, holds, hold_mask, color_mask>>
       ELSE IF IsCancelled(cancel_token)
       THEN \* lines 75-76
            /\ job_ret' = CancelledResult(results)
            /\ ret_line' = 76
            /\ pc' = "returned"
            /\ UNCHANGED <<contours, contour_idx, holds, first_run, hold_mask, color_mask>>
       ELSE \* lines 79-110; hold_mask keeps combined_mask as it is after line
            \* 102, before the closing of line 105
            /\ color_mask' = ColorMask(img, ColorOrder[color_idx])
            /\ hold_mask' = color_mask' \cup ValidChalkMask(img, ColorOrder[color_idx])
            /\ contours' = FinalContours(img, ColorOrder[color_idx])
            /\ holds' = <<>>
            /\ contour_idx' = 1
            /\ pc' = "for_contour"
            /\ UNCHANGED <<job_ret, ret_line, first_run>>
    /\ UNCHANGED <<calls, args, img, color_idx, results, exc, ret, http>>
    /\ UNCHANGED aux

\* variant: a contour of area exactly 100 is dropped too
TooSmall_Inclusive(contour) == contourArea(contour) <= MinContourArea

\* `cv2.contourArea(contour) < 100` (line 116)
TooSmall(contour) == contourArea(contour) < MinContourArea

\* lines 111-151: head and body of the contour loop
ForContour ==
    /\ pc = "for_contour"
    /\ IF contour_idx > Len(contours)
       THEN \* lines 150-151, then the next colour
            /\ results' = IF holds # <<>>
                          THEN [c \in DOMAIN results \cup {ColorOrder[color_idx]} |->
                                   IF c = ColorOrder[color_idx] THEN holds ELSE results[c]]
                          ELSE results
            /\ color_idx' = color_idx + 1
            /\ pc' = "for_color"
            /\ UNCHANGED <<contour_idx, holds, job_ret, ret_line>>
       ELSE IF IsCancelled(cancel_token)
       THEN \* lines 112-113
            /\ job_ret' = CancelledResult(results)
            /\ ret_line' = 113
            /\ pc' = "returned"
            /\ UNCHANGED <<contour_idx, holds, results, color_idx>>
       ELSE \* lines 116-148
            /\ holds' = IF TooSmall(contours[contour_idx])
                        THEN holds
                        ELSE Append(holds, MakeHold(img, contours[contour_idx],
                                                    ColorOrder[color_idx]))
            /\ contour_idx' = contour_idx + 1
            /\ pc' = "for_contour"
            /\ UNCHANGED <<results, color_idx, job_ret, ret_line>>
    /\ UNCHANGED <<calls, args, img, contours, hold_mask, color_mask, exc, ret, first_run, http>>
    /\ UNCHANGED aux

(* ------------------------------------------------------------------ *)
(* BackgroundRemovalService                                           *)
(* ------------------------------------------------------------------ *)
\* __init__ (lines 16-23): parameters of edge detection and of hold detection
edge_threshold1 == 20
edge_threshold2 == 100
min_hold_size == 200
\* side of the structuring elements self.noise_kernel and self.cleanup_kernel
rb_noise_kernel == 3
cleanup_kernel == 5
\* iterations of the dilation of the edges (line 190)
EdgeDilations == 3
\* level of the threshold on the V channel (line 223)
WhiteLevel == 180

\* the keys of hold_colors (lines 28-55) in the order of `.items()`
HoldColorOrder ==
    <<"red", "yellow", "orange", "purple", "green", "white", "black", "pink">>

\* hold_colors[c]: the list of the <<lower, upper>> ranges of colour c
hold_colors ==
    [c \in {HoldColorOrder[i] : i \in 1..Len(HoldColorOrder)} |->
        CASE c = "red"    -> << << <<0, 50, 30>>,   <<15, 255, 255>> >>,
                                << <<155, 50, 30>>, <<180, 255, 255>> >> >>
          [] c = "yellow" -> << << <<15, 50, 30>>,  <<40, 255, 255>> >> >>
          [] c = "orange" -> << << <<5, 50, 30>>,   <<25, 255, 255>> >> >>
          [] c = "purple" -> << << <<125, 20, 20>>, <<155, 255, 255>> >> >>
          [] c = "green"  -> << << <<30, 20, 20>>,  <<90, 255, 255>> >> >>
          [] c = "white"  -> << << <<0, 0, 160>>,   <<180, 60, 255>> >> >>
          [] c = "black"  -> << << <<0, 0, 0>>,     <<180, 255, 60>> >> >>
          [] c = "pink"   -> << << <<145, 20, 30>>, <<175, 255, 255>> >>,
                                << <<0, 20, 30>>,   <<15, 180, 255>> >> >>]

\* lines 143-145: the pixel lies in one of the ranges of colour c
InHoldColor(hsv, c) ==
    \E i \in 1..Len(hold_colors[c]) :
        inRange(hsv, hold_colors[c][i][1], hold_colors[c][i][2])

\* A mask of the service: the rectangles of blob pixels in it, and whether
\* the pixels of the wall are in it.  (A wall in the mask takes the blobs of
\* the mask in: there is nothing for the opening to erase.)
EmptyMask == [rects |-> {}, wall |-> FALSE]

\* lines 140-149: the mask of one colour, opened with noise_kernel and closed
\* with cleanup_kernel
ColorMaskOf(image, c) ==
    LET hit == {Geometry(b) : b \in {q \in image.blobs : InHoldColor(BGR2HSV(q.bgr), c)}}
        wallhit == InHoldColor(BGR2HSV(image.wall), c)
    IN  [rects |-> IF wallhit THEN hit
                   ELSE MorphClose(MorphOpen(hit, rb_noise_kernel), cleanup_kernel),
         wall |-> wallhit]

\* _create_color_masks (lines 130-174): the masks of all the colours of
\* hold_colors, or-ed together
RECURSIVE create_color_masks(_, _)
create_color_masks(image, names) ==
    IF names = <<>> THEN EmptyMask
    ELSE LET m == ColorMaskOf(image, Head(names))
             rest == create_color_masks(image, Tail(names))
         IN  [rects |-> m.rects \cup rest.rects, wall |-> m.wall \/ rest.wall]

\* cv2.cvtColor(img, COLOR_BGR2GRAY) on one pixel
Gray(bgr) == (114 * bgr[1] + 587 * bgr[2] + 299 * bgr[3] + 500) \div 1000

\* lines 185-187: cv2.Canny on the filtered grey picture finds an edge along
\* the border between two uniform areas when the Sobel response to the step,
\* four times its height, is above the upper threshold
HasEdge(bgr1, bgr2) ==
    LET step == IF Gray(bgr1) >= Gray(bgr2) THEN Gray(bgr1) - Gray(bgr2)
                ELSE Gray(bgr2) - Gray(bgr1)
    IN  4 * step > edge_threshold2

\* variant: the edge detector reports an outline in the middle of any picture
EdgeContours_Centre(image) == <<[x |-> 10, y |-> 10, w |-> 20, h |-> 20]>>

\* lines 190-193: the outer contours of the dilated edges.  The edges run
\* along the outline of every group of adjoining blobs that stand out from
\* the wall; three dilations with the 3 x 3 kernel widen them by 3 pixels.
EdgeContours(image) ==
    LET standing == {Geometry(b) : b \in {q \in image.blobs : HasEdge(q.bgr, image.wall)}}
        groups == MorphClose(standing, 1)
    IN  findContours({Dilate(g, 2 * EdgeDilations * (rb_noise_kernel \div 2) + 1, image) :
                         g \in groups}, image)

\* cv2.arcLength(contour, True) of a rectangle's contour
arcLength(b) == 2 * ((b.w - 1) + (b.h - 1))

\* lines 206-209: 0.05 < 4 * pi * area / perimeter^2 < 0.95, with 355/113 for pi
CircularityOk(b) ==
    LET area == contourArea(b)
        perimeter == arcLength(b)
    IN  /\ 5 * 113 * perimeter * perimeter < 100 * 4 * 355 * area
        /\ 100 * 4 * 355 * area < 95 * 113 * perimeter * perimeter

\* lines 211-213: np.sum(color_overlap), the sum of the VALUES of the pixels
\* of the contour that are in the colour mask, each of them 255
ColorOverlapSum(image, contour, mask) ==
    LET inside == PixelSum({[x |-> r.x, y |-> r.y, w |-> r.w, h |-> r.h, bgr |-> <<0, 0, 0>>] :
                               r \in mask.rects}, contour, 0)
        wallpixels == PixelCount(contour) - PixelSum(image.blobs, contour, 0)
    IN  255 * (inside + IF mask.wall THEN wallpixels ELSE 0)

\* `area > self.min_hold_size` (line 202)
LargeEnough(contour) == contourArea(contour) > min_hold_size

\* `np.sum(color_overlap) > area * 0.1` (line 214)
EnoughColor(image, contour, mask) ==
    10 * ColorOverlapSum(image, contour, mask) > contourArea(contour)

\* lines 200-220: the contours taken as holds, each with the margin the
\* dilation with cleanup_kernel adds
HoldRegions(image, cs, mask) ==
    {Dilate(cs[i], cleanup_kernel, image) :
        i \in {j \in 1..Len(cs) : /\ LargeEnough(cs[j])
                                  /\ arcLength(cs[j]) > 0
                                  /\ CircularityOk(cs[j])
                                  /\ EnoughColor(image, cs[j], mask)}}

\* line 223: cv2.threshold(V, 180, 255, THRESH_BINARY)
IsWhite(bgr) == BGR2HSV(bgr)[3] > WhiteLevel

\* lines 222-234: the coloured and the bright pixels inside the hold
\* regions, closed with cleanup_kernel and opened with noise_kernel.  (The
\* pictures with blobs have a wall that is neither coloured nor bright; a
\* picture of one colour is coloured or bright everywhere or nowhere.)
FinalMask(image, regions, mask) ==
    LET bright == {Geometry(b) : b \in {q \in image.blobs : IsWhite(q.bgr)}}
        whole == IF image.blobs = {} /\ (mask.wall \/ IsWhite(image.wall))
                 THEN {[x |-> 0, y |-> 0, w |-> ImgW, h |-> ImgH]}
                 ELSE {}
        kept == {r \in {Intersect(m, g) : m \in mask.rects \cup bright \cup whole,
                                          g \in regions} :
                    r.w > 0 /\ r.h > 0}
    IN  [rects |-> MorphOpen(MorphClose(MorphClose(kept, cleanup_kernel), cleanup_kernel),
                             rb_noise_kernel),
         wall |-> FALSE]

\* variant: the border pixels of the mask are half transparent
MaskValue_Soft(mask, p) ==
    IF \E r \in mask.rects : /\ r.x < p[1] /\ p[1] < r.x + r.w - 1
                             /\ r.y < p[2] /\ p[2] < r.y + r.h - 1
    THEN 255
    ELSE IF \E r \in mask.rects : /\ r.x <= p[1] /\ p[1] < r.x + r.w
                                  /\ r.y <= p[2] /\ p[2] < r.y + r.h
    THEN 128
    ELSE 0

\* the value of a mask at a pixel: 255 inside (cv2.inRange, cv2.threshold
\* with maxval 255 and cv2.drawContours with 255), 0 outside
MaskValue(mask, p) ==
    IF \E r \in mask.rects : /\ r.x <= p[1] /\ p[1] < r.x + r.w
                             /\ r.y <= p[2] /\ p[2] < r.y + r.h
    THEN 255
    ELSE 0

\* lines 292-295: cv2.cvtColor(img, COLOR_BGR2BGRA), then the alpha channel
\* is overwritten with hold_mask
MakeRgba(image, mask) ==
    [p \in Pixels(image) |->
        <<PixelAt(image, p)[1], PixelAt(image, p)[2], PixelAt(image, p)[3],
          MaskValue(mask, p)>>]

\* the dict returned when cancellation is observed (lines 260 and 289)
EmptyRemoval == [base64_image |-> "", file_path |-> ""]

\* the dict returned at the end (lines 305-311): the PNG of the RGBA picture
\* and the path it was written to
Removal(rgba) == [base64_image |-> EncodePng(rgba), file_path |-> "Images/holds.png"]

\* the pictures given to background removal: a wall of one colour, and blobs
\* on a wall that is in no range of hold_colors
RbWall == <<150, 150, 150>>
Blue == <<255, 0, 0>>
RbBlobs ==
    {{},
     {[x |-> 12, y |-> 17, w |-> 15, h |-> 5, bgr |-> Red]},
     {[x |-> 12, y |-> 17, w |-> 15, h |-> 6, bgr |-> Red]},
     {[x |-> 12, y |-> 13, w |-> 15, h |-> 9, bgr |-> Blue]},
     {[x |-> 8, y |-> 13, w |-> 20, h |-> 14, bgr |-> Blue],
      [x |-> 28, y |-> 13, w |-> 3, h |-> 14, bgr |-> Red]}}
RbPictures ==
    {[decodable |-> TRUE, blobs |-> b, wall |-> RbWall] : b \in RbBlobs}
    \cup {[decodable |-> TRUE, blobs |-> {}, wall |-> c] : c \in {Background, Red, White}}
RbImageInputs == RbPictures \cup {Undecodable}

\* remove_background (lines 238-251): hand _remove_background_sync to the
\* executor
Invoke_remove_background(data, tok) ==
    /\ method' = "remove_background"
    /\ image_data' = data
    /\ target_color' = ""
    /\ cancel_token' = tok
    /\ FreshFrame
    /\ exc' = NoExc
    /\ pc' = "rb_imdecode"

\* a direct call of remove_background
remove_background(data, tok) ==
    /\ CanCall
    /\ hpc = "none"
    /\ calls' = calls + 1
    /\ Invoke_remove_background(data, tok)
    /\ UNCHANGED <<first_run, http>>
    /\ UNCHANGED aux

\* lines 256-257
RbImdecode ==
    /\ pc = "rb_imdecode"
    /\ img' = imdecode(image_data)
    /\ pc' = "rb_create_hold_mask"
    /\ UNCHANGED <<calls, args, color_idx, contours, contour_idx, holds, results,
                   hold_mask, color_mask, job_ret, ret_line, exc, ret, first_run, http>>
    /\ UNCHANGED aux

\* lines 259-286: the first checkpoint, then _create_hold_mask (lines
\* 176-236), whose cvtColor (line 179) fails on None, and the debug pictures
RbCreateHoldMask ==
    /\ pc = "rb_create_hold_mask"
    /\ IF IsCancelled(cancel_token)
       THEN /\ job_ret' = EmptyRemoval
            /\ ret_line' = 260
            /\ pc' = "returned"
            /\ exc' = NoExc
            /\ UNCHANGED <<color_mask, contours, hold_mask>>
       ELSE IF img = None
       THEN /\ pc' = "raised"
            /\ exc' = [type |-> "cv2.error", at |-> "cvtColor",
                       message |-> "!_src.empty()", status_code |-> 0]
            /\ UNCHANGED <<job_ret, ret_line, color_mask, contours, hold_mask>>
       ELSE /\ pc' = "rb_encode"
            /\ exc' = NoExc
            /\ color_mask' = create_color_masks(img, HoldColorOrder)
            /\ contours' = EdgeContours(img)
            /\ hold_mask' = FinalMask(img, HoldRegions(img, contours', color_mask'),
                                      color_mask')
            /\ UNCHANGED <<job_ret, ret_line>>
    /\ UNCHANGED <<calls, args, img, color_idx, contour_idx, holds, results, ret,
                   first_run, http>>
    /\ UNCHANGED aux

\* lines 288-311: the second checkpoint, then the RGBA picture is written
\* and encoded
RbEncode ==
    /\ pc = "rb_encode"
    /\ IF IsCancelled(cancel_token)
       THEN /\ job_ret' = EmptyRemoval
            /\ ret_line' = 289
       ELSE /\ job_ret' = Removal(MakeRgba(img, hold_mask))
            /\ ret_line' = 308
    /\ pc' = "returned"
    /\ UNCHANGED <<calls, args, locals, exc, ret, first_run, http>>
    /\ UNCHANGED aux

\* variant: only the first hold of the label is handed over
DictGet_FirstOnly(d, key, default) == IF key \in DOMAIN d THEN <<d[key][1]>> ELSE default

\* results.get(target_color, [])
DictGet(d, key, default) == IF key \in DOMAIN d THEN d[key] ELSE default

\* the awaiting coroutine resumes with the job's value or with its exception
\* (image_processor.py lines 58 and 170-174, background_removal_service.py
\* line 251)
Resume ==
    /\ pc \in {"returned", "raised"}
    /\ method \in {"process_image", "get_route_by_color", "remove_background"}
    /\ IF pc = "raised"
       THEN /\ pc' = "failed"
            /\ ret' = Unset
       ELSE /\ pc' = "done"
            /\ ret' = IF method = "get_route_by_color"
                      THEN [color |-> target_color,
                            holds |-> DictGet(job_ret, target_color, <<>>)]
                      ELSE job_ret
    \* the frame of the job is gone
    /\ img' = Unset
    /\ color_idx' = 0
    /\ contours' = <<>>
    /\ contour_idx' = 0
    /\ holds' = <<>>
    /\ results' = Unset
    /\ hold_mask' = Unset
    /\ color_mask' = Unset
    /\ UNCHANGED <<calls, args, job_ret, ret_line, exc, first_run, http>>
    /\ UNCHANGED aux

\* the holder of the asyncio.Event sets it while the call is in progress
SetToken ==
    /\ pc \notin {"idle", "done", "failed"}
    /\ cancel_token = "clear"
    /\ cancel_token' = "set"
    /\ UNCHANGED <<calls, method, image_data, target_color, pc, locals, job_ret,
                   ret_line, exc, ret, first_run, http>>
    /\ UNCHANGED aux

Next ==
    \/ \E d \in ImageInputs, tok \in TokenInputs : process_image(d, tok)
    \/ \E d \in ImageInputs, c \in TargetInputs, tok \in TokenInputs :
          get_route_by_color(d, c, tok)
    \/ \E d \in RbImageInputs, tok \in TokenInputs : remove_background(d, tok)
    \/ Imdecode
    \/ CvtColor
    \/ ForColor
    \/ ForContour
    \/ RbImdecode
    \/ RbCreateHoldMask
    \/ RbEncode
    \/ Resume
    \/ SetToken

Spec == Init /\ [][Next]_vars


\* the same service with a token that is only ever set before the call
NextPreset ==
    \/ \E d \in ImageInputs, tok \in TokenInputs : process_image(d, tok)
    \/ \E d \in RbImageInputs, tok \in TokenInputs : remove_background(d, tok)
    \/ Imdecode
    \/ CvtColor
    \/ ForColor
    \/ ForContour
    \/ RbImdecode
    \/ RbCreateHoldMask
    \/ RbEncode
    \/ Resume

SpecPreset == Init /\ [][NextPreset]_vars

(* ------------------------------------------------------------------ *)
(* VisualizationService: the two renderers                            *)
(* ------------------------------------------------------------------ *)
\* np.zeros((height, width, 3)): a black picture of the size of image
Zeros(image) == [p \in Pixels(image) |-> <<0, 0, 0>>]

\* img.copy()
CopyOf(image) == [p \in Pixels(image) |-> PixelAt(image, p)]

\* p lies in the rectangle with the corners pt1 and pt2, both included
InRectangle(p, pt1, pt2) ==
    /\ pt1[1] <= p[1] /\ p[1] <= pt2[1]
    /\ pt1[2] <= p[2] /\ p[2] <= pt2[2]

\* p lies on the outline of that rectangle drawn with thickness t: each side
\* is a line that reaches t // 2 pixels to both of its sides
OnOutline(p, pt1, pt2, t) ==
    LET r == t \div 2
    IN  /\ InRectangle(p, <<pt1[1] - r, pt1[2] - r>>, <<pt2[1] + r, pt2[2] + r>>)
        /\ ~InRectangle(p, <<pt1[1] + r + 1, pt1[2] + r + 1>>,
                           <<pt2[1] - r - 1, pt2[2] - r - 1>>)

\* cv2.rectangle(canvas, pt1, pt2, bgr, -1): the filled rectangle, clipped to
\* the canvas
FilledRectangle(canvas, pt1, pt2, bgr) ==
    [p \in DOMAIN canvas |-> IF InRectangle(p, pt1, pt2) THEN bgr ELSE canvas[p]]

\* cv2.rectangle(canvas, pt1, pt2, bgr, t) with t > 1: the outline
OutlinedRectangle(canvas, pt1, pt2, bgr, t) ==
    [p \in DOMAIN canvas |-> IF OnOutline(p, pt1, pt2, t) THEN bgr ELSE canvas[p]]

\* cv2.addWeighted(overlay, 0.3, canvas, 0.7, 0): per channel, rounded to the
\* nearest integer
addWeighted(overlay, canvas) ==
    [p \in DOMAIN canvas |->
        [k \in 1..3 |-> (3 * overlay[p][k] + 7 * canvas[p][k] + 5) \div 10]]

\* the corners (x - w//2, y - h//2) and (x + w//2, y + h//2) both renderers
\* pass to cv2.rectangle
Corner1(hold) ==
    <<hold.position.x - hold.size.width \div 2, hold.position.y - hold.size.height \div 2>>
Corner2(hold) ==
    <<hold.position.x + hold.size.width \div 2, hold.position.y + hold.size.height \div 2>>

\* thickness of the outline (visualization_service.py lines 61 and 108)
OutlineThickness == 2

\* visualization_service.py lines 44-61: one hold on the black canvas
DrawHold(canvas, hold, bgr_color) ==
    OutlinedRectangle(FilledRectangle(canvas, Corner1(hold), Corner2(hold), bgr_color),
                      Corner1(hold), Corner2(hold), <<255, 255, 255>>, OutlineThickness)

\* visualization_service.py lines 89-108: one hold over the picture
DrawHoldOverlay(canvas, hold, bgr_color) ==
    LET overlay == FilledRectangle(canvas, Corner1(hold), Corner2(hold), bgr_color)
    IN  OutlinedRectangle(addWeighted(overlay, canvas), Corner1(hold), Corner2(hold),
                          bgr_color, OutlineThickness)

\* `for hold in holds`
RECURSIVE DrawHolds(_, _, _, _)
DrawHolds(canvas, hs, bgr_color, opaque) ==
    IF hs = <<>> THEN canvas
    ELSE DrawHolds(IF opaque THEN DrawHold(canvas, Head(hs), bgr_color)
                   ELSE DrawHoldOverlay(canvas, Head(hs), bgr_color),
                   Tail(hs), bgr_color, opaque)

\* variant: the labels are visited from the last to the first
Items_Reversed(d) ==
    LET fwd == SelectSeq(ColorOrder, LAMBDA c : c \in DOMAIN d)
    IN  [i \in 1..Len(fwd) |-> fwd[Len(fwd) + 1 - i]]

\* the keys of holds_by_color in the order of `.items()`: the order in which
\* _process_image_sync inserted them, that of color_ranges
Items(d) == SelectSeq(ColorOrder, LAMBDA c : c \in DOMAIN d)

\* `for color, holds in holds_by_color.items()`
RECURSIVE DrawLabels(_, _, _, _)
DrawLabels(canvas, labels, d, opaque) ==
    IF labels = <<>> THEN canvas
    ELSE DrawLabels(DrawHolds(canvas, d[Head(labels)], visualization_colors[Head(labels)],
                              opaque),
                    Tail(labels), d, opaque)

\* the arguments a caller that holds a detection result passes as
\* holds_by_color: the whole mapping, or the mapping of one label
\* (visualization.py lines 233-236)
Selections(d) == {d} \cup {[c \in {k} |-> d[k]] : k \in DOMAIN d}

\* a renderer (visualization_service.py lines 21-65 and 67-112): img.shape
\* and img.copy() fail on None
Render(name, data, d) ==
    /\ pc = "done"
    /\ method = "process_image"
    /\ hpc = "none"
    /\ calls < MaxCalls
    /\ calls' = calls + 1
    /\ method' = name
    /\ image_data' = data
    /\ holds_by_color' = d
    /\ IF imdecode(data) = None
       THEN /\ pc' = "failed"
            /\ exc' = [type |-> "AttributeError", at |-> name,
                       message |-> "'NoneType' object has no attribute",
                       status_code |-> 0]
            /\ visualization' = Unset
            /\ ret' = Unset
       ELSE /\ pc' = "done"
            /\ exc' = NoExc
            /\ visualization' =
                  DrawLabels(IF name = "create_hold_visualization"
                             THEN Zeros(imdecode(data))
                             ELSE CopyOf(imdecode(data)),
                             Items(d), d, name = "create_hold_visualization")
            /\ ret' = EncodePng(visualization')
    /\ UNCHANGED <<target_color, cancel_token, locals, job_ret, ret_line, first_run, http,
                   pool, all_routes>>

create_hold_visualization(data, d) == Render("create_hold_visualization", data, d)

create_overlay_visualization(data, d) == Render("create_overlay_visualization", data, d)

\* the pictures given to detection before a renderer is called
RenderInputs ==
    {d \in Pictures : \A b \in d.blobs : b.w >= 10 /\ b.bgr # White} \cup ChalkPictures

\* detection of a picture whose holds are then drawn
Detect(data) ==
    /\ visualization = Unset
    /\ process_image(data, "none")

NextRender ==
    \/ \E d \in RenderInputs : Detect(d)
    \/ Imdecode
    \/ CvtColor
    \/ ForColor
    \/ ForContour
    \/ Resume
    \/ \E data \in {image_data, Undecodable}, d \in Selections(ret) :
          create_hold_visualization(data, d)
    \/ \E data \in {image_data, Undecodable}, d \in Selections(ret) :
          create_overlay_visualization(data, d)

SpecRender == Init /\ [][NextRender]_vars

(* ------------------------------------------------------------------ *)
(* Request handlers: identify_route (routers/images.py) and           *)
(* visualize_route (routers/visualization.py)                         *)
(* ------------------------------------------------------------------ *)
\* the routes modelled
Endpoints == {"identify_route", "visualize_route"}

\* file.content_type values
ContentTypeInputs == {"image/png", "text/plain"}

\* values of the form field `color`
ColorInputs == {"red", "Pink", "teal"}

\* the uploads: the pictures whose blobs are all 11 x 11, and bytes that
\* encode no picture
HttpImageInputs ==
    {d \in ImageInputs : \A b \in d.blobs : b.w = 11 /\ b.h = 11}

\* file.content_type.startswith('image/')
IsImageType(ct) == ct \in {"image/png"}

\* color.lower()
Lower(c) == IF c = "Pink" THEN "pink" ELSE c

HTTPException(code, text) ==
    [type |-> "HTTPException", at |-> "handler", message |-> text, status_code |-> code]

\* message prefix of the generic error of a route (lines 176 and 161)
GenericDetail(ep) ==
    IF ep = "identify_route" THEN "Error processing image" ELSE "Error creating visualization"

\* the except clauses of process_with_cancel (images.py lines 152-160,
\* visualization.py lines 137-145): what leaves the coroutine when e is
\* raised in its try body
InnerExcept(e) ==
    IF e.type = "CancelledError" THEN HTTPException(499, "Request cancelled")
    ELSE IF e.type = "ValueError" THEN HTTPException(400, e.message)
    ELSE e

\* the except clauses of the route (images.py lines 164-176,
\* visualization.py lines 149-161): HTTPException is an Exception and is
\* neither CancelledError nor ValueError
OuterExcept(e, ep) ==
    IF e.type = "CancelledError" THEN HTTPException(499, "Request cancelled")
    ELSE IF e.type = "ValueError" THEN HTTPException(400, e.message)
    ELSE HTTPException(500, GenericDetail(ep))

\* the error response for an exception raised in the body of
\* process_with_cancel
RespondError(e) ==
    /\ raised' = e
    /\ status' = OuterExcept(InnerExcept(e), endpoint).status_code
    /\ detail' = OuterExcept(InnerExcept(e), endpoint).message
    /\ body' = Unset
    /\ hpc' = "closed"

InitHttp ==
    /\ calls = 0
    /\ method = "none"
    /\ image_data = Unset
    /\ target_color = ""
    /\ cancel_token = "none"
    /\ pc = "idle"
    /\ img = Unset
    /\ color_idx = 0
    /\ contours = <<>>
    /\ contour_idx = 0
    /\ holds = <<>>
    /\ results = Unset
    /\ job_ret = Unset
    /\ ret_line = 0
    /\ exc = NoExc
    /\ ret = Unset
    /\ first_run = None
    /\ hpc = "idle"
    /\ endpoint = ""
    /\ content_type = ""
    /\ color = ""
    /\ disconnected = FALSE
    /\ raised = NoExc
    /\ status = 0
    /\ detail = ""
    /\ body = Unset
    /\ hold_mask = Unset
    /\ color_mask = Unset
    /\ holds_by_color = Unset
    /\ visualization = Unset
    /\ handlers = [r \in 1..MaxRequests |-> NoRequest]
    /\ executors = [e \in Services |-> IdleExecutor]
    /\ all_routes = Unset

\* a request arrives (images.py lines 107-128, visualization.py lines 63-84):
\* the content type is checked outside the try; then the token is created,
\* the cleanup task is registered and the upload is read.  A request is
\* taken when the previous one is closed and the worker is free.
Request(ep, ct, data, c) ==
    /\ hpc \in {"idle", "closed"}
    /\ pc \in {"idle", "done", "failed", "returned", "raised"}
    /\ calls < MaxCalls
    /\ calls' = calls + 1
    /\ endpoint' = ep
    /\ content_type' = ct
    /\ color' = c
    /\ disconnected' = FALSE
    /\ raised' = NoExc
    /\ body' = Unset
    /\ method' = "none"
    /\ target_color' = ""
    /\ FreshFrame
    /\ exc' = NoExc
    /\ pc' = "idle"
    /\ IF ~IsImageType(ct)
       THEN /\ status' = 400
            /\ detail' = "File must be an image"
            /\ hpc' = "closed"
            /\ image_data' = Unset
            /\ cancel_token' = "none"
       ELSE /\ status' = 0
            /\ detail' = ""
            /\ hpc' = "check_disconnected"
            /\ image_data' = data
            /\ cancel_token' = "clear"
    /\ UNCHANGED first_run
    /\ UNCHANGED aux

\* images.py lines 132-140, visualization.py lines 88-97: the first
\* disconnect check, then the call of get_route_by_color
H_CheckDisconnected ==
    /\ hpc = "check_disconnected"
    /\ IF disconnected
       THEN /\ cancel_token' = "set"
            /\ RespondError(HTTPException(499, "Client disconnected"))
            /\ UNCHANGED <<method, image_data, target_color, pc, locals, job_ret,
                           ret_line, exc, ret>>
       ELSE /\ Invoke_get_route_by_color(image_data, Lower(color), cancel_token)
            /\ IF pc' = "failed"
               THEN RespondError(exc')
               ELSE /\ hpc' = "await"
                    /\ UNCHANGED response
    /\ UNCHANGED <<calls, first_run, request, disconnected>>
    /\ UNCHANGED aux

\* the task of the handler is cancelled while it awaits the job: the
\* CancelledError is caught at images.py lines 152-156 (visualization.py
\* lines 137-141); the job goes on in the worker thread
H_Cancelled ==
    /\ hpc = "await"
    /\ pc \notin {"done", "failed"}
    /\ cancel_token' = "set"
    /\ RespondError([type |-> "CancelledError", at |-> "await",
                     message |-> "", status_code |-> 0])
    /\ UNCHANGED <<calls, method, image_data, target_color, pc, locals, job_ret,
                   ret_line, exc, ret, first_run, request, disconnected>>
    /\ UNCHANGED aux

\* images.py lines 140-150, visualization.py lines 97-103: the awaited call
\* ends, then the second disconnect check; identify_route returns the result
H_AfterAwait ==
    /\ hpc = "await"
    /\ pc \in {"done", "failed"}
    /\ IF pc = "failed"
       THEN /\ RespondError(exc)
            /\ UNCHANGED cancel_token
       ELSE IF disconnected
       THEN /\ cancel_token' = "set"
            /\ RespondError(HTTPException(499, "Client disconnected"))
       ELSE IF endpoint = "identify_route"
       THEN /\ status' = 200
            /\ body' = ret
            /\ hpc' = "responded"
            /\ UNCHANGED <<cancel_token, raised, detail>>
       ELSE /\ hpc' = "visualize"
            /\ UNCHANGED <<cancel_token, response>>
    /\ UNCHANGED <<calls, method, image_data, target_color, pc, locals, job_ret,
                   ret_line, exc, ret, first_run, request, disconnected>>
    /\ UNCHANGED aux

\* parameters of VisualizationService.create_hold_visualization after self
\* (visualization_service.py line 21)
create_hold_visualization_params == <<"image_data", "holds_by_color">>

\* the arguments visualize_route passes (visualization.py lines 106-111)
VisualizeArguments == <<"contents", "holds", "color", "cancel_token">>

\* visualization.py lines 105-111: the call of create_hold_visualization.
\* The call does not bind: it passes four arguments for two parameters.  Were
\* it to bind, the list of holds has no .items() (visualization_service.py
\* line 41).
H_Visualize ==
    /\ hpc = "visualize"
    /\ IF Len(VisualizeArguments) # Len(create_hold_visualization_params)
       THEN RespondError([type |-> "TypeError", at |-> "create_hold_visualization",
                          message |-> "positional arguments", status_code |-> 0])
       ELSE RespondError([type |-> "AttributeError", at |-> "create_hold_visualization",
                          message |-> "'list' object has no attribute 'items'",
                          status_code |-> 0])
    /\ UNCHANGED <<calls, args, pc, locals, job_ret, ret_line, exc, ret, first_run,
                   request, disconnected>>
    /\ UNCHANGED aux

\* the cleanup background task, run after a response that was returned
\* (images.py lines 119-123)
H_Cleanup ==
    /\ hpc = "responded"
    /\ cancel_token' = IF cancel_token # "set" THEN "set" ELSE cancel_token
    /\ hpc' = "closed"
    /\ UNCHANGED <<calls, method, image_data, target_color, pc, locals, job_ret,
                   ret_line, exc, ret, first_run, request, disconnected, response>>
    /\ UNCHANGED aux

\* the client goes away while its request is being handled
Disconnect ==
    /\ hpc \in {"check_disconnected", "await", "visualize"}
    /\ ~disconnected
    /\ disconnected' = TRUE
    /\ UNCHANGED <<calls, args, pc, locals, job_ret, ret_line, exc, ret, first_run,
                   hpc, request, response>>
    /\ UNCHANGED aux

NextHttp ==
    \/ \E ep \in Endpoints, ct \in ContentTypeInputs, d \in HttpImageInputs,
          c \in ColorInputs : Request(ep, ct, d, c)
    \/ H_CheckDisconnected
    \/ H_Cancelled
    \/ H_AfterAwait
    \/ H_Visualize
    \/ H_Cleanup
    \/ Disconnect
    \/ Imdecode
    \/ CvtColor
    \/ ForColor
    \/ ForContour
    \/ Resume

SpecHttp == InitHttp /\ [][NextHttp]_vars

(* ------------------------------------------------------------------ *)
(* Requests handled at the same time                                  *)
(* ------------------------------------------------------------------ *)
\* the routes whose handlers are interleaved
ConcurrentEndpoints == {"identify_route", "visualize_route", "remove_background"}

\* the routers main.py mounts (lines 21-22): images and visualization
MountedEndpoints == {"identify_route", "visualize_route"}

\* the service instance a route hands its job to (images.py line 140,
\* visualization.py line 97, background.py line 62)
ServiceOf(ep) ==
    IF ep = "identify_route" THEN "images.image_processor"
    ELSE IF ep = "visualize_route" THEN "visualization.image_processor"
    ELSE "background.background_service"

\* variant: all the requests share one event
WithTokenSet_Shared(hs, r) ==
    [q \in DOMAIN hs |-> [hs[q] EXCEPT !.cancel_token = "set"]]

\* cancel_token.set() in the handler of request r
WithTokenSet(hs, r) == [hs EXCEPT ![r].cancel_token = "set"]

\* a request arrives (images.py lines 114-128, background.py lines 35-49):
\* its handler creates its token and registers its cleanup task
Arrive(r, ep) ==
    /\ handlers[r].hpc = "idle"
    /\ handlers' = [handlers EXCEPT ![r] =
                       [endpoint |-> ep, hpc |-> "check_disconnected",
                        cancel_token |-> "clear", disconnected |-> FALSE, job |-> "none",
                        cancelled |-> FALSE]]
    /\ UNCHANGED <<calls, args, pc, locals, job_ret, ret_line, exc, ret, first_run, http,
                   render,
                   all_routes, executors>>

\* the first disconnect check (images.py lines 134-140): the handler of a
\* client that is gone sets the token and raises; otherwise run_in_executor
\* submits the job to the executor of the route's service instance
Submit(r) ==
    /\ handlers[r].hpc = "check_disconnected"
    /\ IF handlers[r].disconnected
       THEN /\ handlers' = [WithTokenSet(handlers, r) EXCEPT ![r].hpc = "closed"]
            /\ UNCHANGED executors
       ELSE /\ handlers' = [handlers EXCEPT ![r].hpc = "await", ![r].job = "queued"]
            /\ executors' =
                  [executors EXCEPT ![ServiceOf(handlers[r].endpoint)].queue =
                      Append(executors[ServiceOf(handlers[r].endpoint)].queue, r)]
    /\ UNCHANGED <<calls, args, pc, locals, job_ret, ret_line, exc, ret, first_run, http,
                   render,
                   all_routes>>

\* the worker thread of an executor takes the next job of its queue
StartJob(e) ==
    /\ executors[e].running = 0
    /\ executors[e].queue # <<>>
    /\ executors' = [executors EXCEPT ![e].running = Head(executors[e].queue),
                                      ![e].queue = Tail(executors[e].queue)]
    /\ handlers' = [handlers EXCEPT ![Head(executors[e].queue)].job = "running"]
    /\ UNCHANGED <<calls, args, pc, locals, job_ret, ret_line, exc, ret, first_run, http,
                   render,
                   all_routes>>

\* the job on the worker thread of an executor returns
FinishJob(e) ==
    /\ executors[e].running # 0
    /\ executors' = [executors EXCEPT ![e].running = 0]
    /\ handlers' = [handlers EXCEPT ![executors[e].running].job = "returned"]
    /\ UNCHANGED <<calls, args, pc, locals, job_ret, ret_line, exc, ret, first_run, http,
                   render,
                   all_routes>>

\* a checkpoint of the job on the worker thread of an executor
\* (image_processor.py lines 75 and 112, background_removal_service.py lines
\* 259 and 288): with the token of its request set, the job stops and
\* returns its empty result
JobCheckpoint(e) ==
    /\ executors[e].running # 0
    /\ IsCancelled(handlers[executors[e].running].cancel_token)
    /\ executors' = [executors EXCEPT ![e].running = 0]
    /\ handlers' = [handlers EXCEPT ![executors[e].running].job = "stopped"]
    /\ UNCHANGED <<calls, args, pc, locals, job_ret, ret_line, exc, ret, first_run, http,
                   render, all_routes>>

\* the awaited job has returned (images.py lines 140-150): the second
\* disconnect check, then the result is returned; visualize_route goes on to
\* the renderer call, which raises (visualization.py lines 106-111)
AfterAwait(r) ==
    /\ handlers[r].hpc = "await"
    /\ handlers[r].job \in {"returned", "stopped"}
    /\ handlers' =
          IF handlers[r].disconnected
          THEN [WithTokenSet(handlers, r) EXCEPT ![r].hpc = "closed"]
          ELSE IF handlers[r].endpoint = "visualize_route"
          THEN [handlers EXCEPT ![r].hpc = "closed"]
          ELSE [handlers EXCEPT ![r].hpc = "responded"]
    /\ UNCHANGED <<calls, args, pc, locals, job_ret, ret_line, exc, ret, first_run, http,
                   render,
                   all_routes, executors>>

\* the task of the handler is cancelled while it awaits its job (images.py
\* lines 152-156): the token is set; a job that still waits in the queue is
\* cancelled with the future, a job that runs goes on
TaskCancelled(r) ==
    /\ handlers[r].hpc = "await"
    /\ handlers[r].job \in {"queued", "running"}
    /\ handlers' = [WithTokenSet(handlers, r) EXCEPT
                       ![r].hpc = "closed",
                       ![r].cancelled = TRUE,
                       ![r].job = IF handlers[r].job = "queued" THEN "dropped"
                                  ELSE handlers[r].job]
    /\ executors' =
          [executors EXCEPT ![ServiceOf(handlers[r].endpoint)].queue =
              SelectSeq(executors[ServiceOf(handlers[r].endpoint)].queue,
                        LAMBDA q : q # r)]
    /\ UNCHANGED <<calls, args, pc, locals, job_ret, ret_line, exc, ret, first_run, http,
                   render,
                   all_routes>>

\* the cleanup task, run after the response was returned (images.py lines
\* 119-123)
Cleanup(r) ==
    /\ handlers[r].hpc = "responded"
    /\ handlers' = [(IF handlers[r].cancel_token # "set"
                     THEN WithTokenSet(handlers, r) ELSE handlers)
                    EXCEPT ![r].hpc = "closed"]
    /\ UNCHANGED <<calls, args, pc, locals, job_ret, ret_line, exc, ret, first_run, http,
                   render,
                   all_routes, executors>>

\* variant: the token is set as soon as the client goes away
ClientGone_Watched(r) ==
    /\ handlers[r].hpc \in {"check_disconnected", "await"}
    /\ ~handlers[r].disconnected
    /\ handlers' = [WithTokenSet(handlers, r) EXCEPT ![r].disconnected = TRUE]
    /\ UNCHANGED <<calls, args, pc, locals, job_ret, ret_line, exc, ret, first_run, http,
                   render, all_routes, executors>>

\* the client of request r goes away
ClientGone(r) ==
    /\ handlers[r].hpc \in {"check_disconnected", "await"}
    /\ ~handlers[r].disconnected
    /\ handlers' = [handlers EXCEPT ![r].disconnected = TRUE]
    /\ UNCHANGED <<calls, args, pc, locals, job_ret, ret_line, exc, ret, first_run, http,
                   render,
                   all_routes, executors>>

NextConc ==
    \/ \E r \in 1..MaxRequests, ep \in ConcurrentEndpoints : Arrive(r, ep)
    \/ \E r \in 1..MaxRequests : Submit(r)
    \/ \E e \in Services : StartJob(e)
    \/ \E e \in Services : FinishJob(e)
    \/ \E e \in Services : JobCheckpoint(e)
    \/ \E r \in 1..MaxRequests : AfterAwait(r)
    \/ \E r \in 1..MaxRequests : TaskCancelled(r)
    \/ \E r \in 1..MaxRequests : Cleanup(r)
    \/ \E r \in 1..MaxRequests : ClientGone(r)

SpecConc == Init /\ [][NextConc]_vars

(* ------------------------------------------------------------------ *)
(* The detection pipeline on a picture of a filled circle             *)
(*                                                                    *)
(* A mask is a set of runs <<y, a, b>>: the pixels of row y from      *)
(* column a to column b, no two runs of a row touching.  The OpenCV   *)
(* calls are computed on the runs, pixel for pixel.                   *)
(* ------------------------------------------------------------------ *)
Black == <<0, 0, 0>>

\* the ways a filled circle of radius r is drawn: the pixels at a squared
\* distance from the centre below r * r, up to r * r, or up to r * r + r
\* (the pixels whose distance, rounded, is at most r)
Rasters == {"inside", "euclid", "rounded"}

RadiusLimit(r, raster) ==
    CASE raster = "inside" -> r * r - 1
      [] raster = "euclid" -> r * r
      [] raster = "rounded" -> r * r + r

\* image_data: a 200 x 200 black picture with a filled red circle of radius
\* 30 centred at (100, 100)
CirclePictures ==
    {[decodable |-> TRUE, width |-> 200, height |-> 200, wall |-> Black,
      disc |-> [cx |-> 100, cy |-> 100, r |-> 30, raster |-> v, bgr |-> Red]] :
        v \in Rasters}

\* the labels asked of these pictures
CircleLabels == {"red", "blue", "teal"}

\* cv2.imdecode of these bytes
DecodeCircle(data) ==
    [width |-> data.width, height |-> data.height, wall |-> data.wall, disc |-> data.disc]

\* the largest s with s * s <= v
Isqrt(v) == CHOOSE s \in 0..(v + 1) : s * s <= v /\ (s + 1) * (s + 1) > v

Rows(image) == 0..(image.height - 1)

\* the intervals <<a, b>> of the mask in row y, and in the rows y-r .. y+r
RowOf(mask, y) == {<<q[2], q[3]>> : q \in {m \in mask : m[1] = y}}
RowsNear(mask, y, r) ==
    {<<q[2], q[3]>> : q \in {m \in mask : y - r <= m[1] /\ m[1] <= y + r}}

\* two intervals overlap or touch
Touching(i, j) == i[1] <= j[2] + 1 /\ j[1] <= i[2] + 1

\* the maximal intervals of the union of a set of intervals
RECURSIVE MergeIntervals(_)
MergeIntervals(I) ==
    IF \E i, j \in I : i # j /\ Touching(i, j)
    THEN LET pr == CHOOSE ij \in I \X I : ij[1] # ij[2] /\ Touching(ij[1], ij[2])
         IN  MergeIntervals((I \ {pr[1], pr[2]})
                            \cup {<<Min2(pr[1][1], pr[2][1]), Max2(pr[1][2], pr[2][2])>>})
    ELSE I

\* the intervals of 0 .. w-1 that the intervals of I leave free
ComplementRow(I, w) ==
    LET starts == {s \in {0} \cup {i[2] + 1 : i \in I} :
                      s <= w - 1 /\ ~\E i \in I : i[1] <= s /\ s <= i[2]}
        EndOf(s) == LET nxt == {i[1] : i \in {j \in I : j[1] > s}}
                    IN  IF nxt = {} THEN w - 1
                        ELSE (CHOOSE a \in nxt : \A o \in nxt : a <= o) - 1
    IN  {<<s, EndOf(s)>> : s \in starts}

\* cv2.bitwise_not, cv2.bitwise_or, cv2.bitwise_and
RunsComplement(mask, image) ==
    UNION {{<<y, i[1], i[2]>> : i \in ComplementRow(RowOf(mask, y), image.width)} :
              y \in Rows(image)}
RunsUnion(m1, m2, image) ==
    UNION {{<<y, i[1], i[2]>> : i \in MergeIntervals(RowOf(m1, y) \cup RowOf(m2, y))} :
              y \in Rows(image)}
RunsIntersect(m1, m2) ==
    {<<pq[1][1], Max2(pq[1][2], pq[2][2]), Min2(pq[1][3], pq[2][3])>> :
        pq \in {ab \in m1 \X m2 : /\ ab[1][1] = ab[2][1]
                                  /\ ab[1][2] <= ab[2][3]
                                  /\ ab[2][2] <= ab[1][3]}}

\* cv2.dilate(mask, ones(k,k)): a pixel is set when a pixel of its k x k
\* neighbourhood is
RunsDilate(mask, k, image) ==
    LET r == k \div 2
        Grown(y) == {<<Max2(0, i[1] - r), Min2(image.width - 1, i[2] + r)>> :
                        i \in RowsNear(mask, y, r)}
    IN  UNION {{<<y, i[1], i[2]>> : i \in MergeIntervals(Grown(y))} : y \in Rows(image)}

\* cv2.erode(mask, ones(k,k)): a pixel stays when every pixel of its k x k
\* neighbourhood inside the picture is set
RunsErode(mask, k, image) ==
    RunsComplement(RunsDilate(RunsComplement(mask, image), k, image), image)

\* variant: opening erodes and does not dilate back
RunsOpen_ErodeOnly(mask, k, image) == RunsErode(mask, k, image)

\* cv2.morphologyEx with MORPH_OPEN and MORPH_CLOSE
RunsOpen(mask, k, image) == RunsDilate(RunsErode(mask, k, image), k, image)
RunsClose(mask, k, image) == RunsErode(RunsDilate(mask, k, image), k, image)

\* the runs of the circle: the pixels <<x, y>> with
\* (x - cx)^2 + (y - cy)^2 at most the limit of the raster
DiscRuns(image) ==
    LET d == image.disc
        lim == RadiusLimit(d.r, d.raster)
        Half(y) == Isqrt(lim - (y - d.cy) * (y - d.cy))
    IN  {<<y, Max2(0, d.cx - Half(y)), Min2(image.width - 1, d.cx + Half(y))>> :
            y \in {v \in Rows(image) : (v - d.cy) * (v - d.cy) <= lim}}

\* cv2.inRange(hsv, lower, upper) of the picture
RunsInRange(image, lower, upper) ==
    RunsUnion(IF inRange(BGR2HSV(image.disc.bgr), lower, upper)
              THEN DiscRuns(image) ELSE {},
              IF inRange(BGR2HSV(image.wall), lower, upper)
              THEN RunsComplement(DiscRuns(image), image) ELSE {},
              image)

\* two runs of neighbouring rows are connected: with diag = 1 also through a
\* corner (8-connectivity), with diag = 0 only through a side
Adjacent(p, q, diag) ==
    /\ p[1] - q[1] = 1 \/ q[1] - p[1] = 1
    /\ p[2] <= q[3] + diag
    /\ q[2] <= p[3] + diag

\* parts of the rows up to mid and parts of the rows from mid + 1 on, joined
\* where they are connected
RECURSIVE JoinParts(_, _, _)
JoinParts(parts, mid, diag) ==
    LET Linked(c, e) ==
            \E p \in {x \in c : x[1] = mid}, q \in {x \in e : x[1] = mid + 1} :
                Adjacent(p, q, diag)
    IN  IF \E c, e \in parts : c # e /\ Linked(c, e)
        THEN LET pr == CHOOSE ce \in parts \X parts : ce[1] # ce[2] /\ Linked(ce[1], ce[2])
             IN  JoinParts((parts \ {pr[1], pr[2]}) \cup {pr[1] \cup pr[2]}, mid, diag)
        ELSE parts

\* the connected components of the rows lo .. hi of a mask
RECURSIVE Components(_, _, _, _)
Components(mask, lo, hi, diag) ==
    IF lo = hi THEN {{q} : q \in {m \in mask : m[1] = lo}}
    ELSE LET mid == (lo + hi) \div 2
         IN  JoinParts(Components(mask, lo, mid, diag)
                       \cup Components(mask, mid + 1, hi, diag), mid, diag)

TouchesBorder(c, image) ==
    \E q \in c : \/ q[1] = 0 \/ q[1] = image.height - 1
                 \/ q[2] = 0 \/ q[3] = image.width - 1

\* cv2.drawContours(mask, [contour], -1, 255, -1) for the outer contour of a
\* component: the component and what it encloses
RunsFill(c, image) ==
    LET outside == UNION {b \in Components(RunsComplement(c, image), 0,
                                           image.height - 1, 0) :
                             TouchesBorder(b, image)}
    IN  RunsComplement(outside, image)

\* a run of c lies in f
Inside(c, f) ==
    \E p \in c, q \in f : p[1] = q[1] /\ q[2] <= p[2] /\ p[3] <= q[3]

\* the first run of a component in the row-major scan
FirstRun(c) ==
    CHOOSE p \in c : \A q \in c : p[1] < q[1] \/ (p[1] = q[1] /\ p[2] <= q[2])

\* the shapes in the reverse of the order in which the scan meets them
RECURSIVE ScanReversed(_, _)
ScanReversed(shapes, image) ==
    IF shapes = {} THEN <<>>
    ELSE LET Pos(c) == FirstRun(c)[1] * image.width + FirstRun(c)[2]
             last == CHOOSE c \in shapes : \A o \in shapes : Pos(o) <= Pos(c)
         IN  <<last>> \o ScanReversed(shapes \ {last}, image)

\* cv2.findContours(mask, RETR_EXTERNAL, CHAIN_APPROX_SIMPLE): the outer
\* contours of the components that lie in no other; each contour is given
\* here by the shape it encloses
RunsFindContours(mask, image) ==
    LET parts == Components(mask, 0, image.height - 1, 1)
        outer == {c \in parts : ~\E e \in parts \ {c} : Inside(c, RunsFill(e, image))}
    IN  ScanReversed({RunsFill(c, image) : c \in outer}, image)

\* first and last row of a shape, and its first and last column in a row
TopRow(f) == CHOOSE y \in {q[1] : q \in f} : \A q \in f : y <= q[1]
BottomRow(f) == CHOOSE y \in {q[1] : q \in f} : \A q \in f : q[1] <= y
LeftEnd(f, y) == CHOOSE a \in {i[1] : i \in RowOf(f, y)} : \A i \in RowOf(f, y) : a <= i[1]
RightEnd(f, y) == CHOOSE b \in {i[2] : i \in RowOf(f, y)} : \A i \in RowOf(f, y) : i[2] <= b

\* the border pixels the contour passes between the left end of row y and
\* that of row y + 1, going down: a diagonal step where the shape widens or
\* narrows, the rest along the wider row
LeftSteps(f, y) ==
    LET a == LeftEnd(f, y)
        a2 == LeftEnd(f, y + 1)
    IN  IF a2 < a
        THEN << <<a - 1, y + 1>> >> \o (IF a2 # a - 1 THEN << <<a2, y + 1>> >> ELSE <<>>)
        ELSE IF a2 > a
        THEN (IF a2 - 1 # a THEN << <<a2 - 1, y>> >> ELSE <<>>) \o << <<a2, y + 1>> >>
        ELSE << <<a, y + 1>> >>

\* the same between the right end of row y + 1 and that of row y, going up
RightSteps(f, y) ==
    LET b == RightEnd(f, y)
        b2 == RightEnd(f, y + 1)
    IN  IF b2 > b
        THEN (IF b + 1 # b2 THEN << <<b + 1, y + 1>> >> ELSE <<>>) \o << <<b, y>> >>
        ELSE IF b2 < b
        THEN << <<b2 + 1, y>> >> \o (IF b2 + 1 # b THEN << <<b, y>> >> ELSE <<>>)
        ELSE << <<b, y>> >>

RECURSIVE LeftChain(_, _, _)
LeftChain(f, lo, hi) ==
    IF lo >= hi THEN <<>>
    ELSE IF hi = lo + 1 THEN LeftSteps(f, lo)
    ELSE LeftChain(f, lo, (lo + hi) \div 2) \o LeftChain(f, (lo + hi) \div 2, hi)

RECURSIVE RightChain(_, _, _)
RightChain(f, lo, hi) ==
    IF lo >= hi THEN <<>>
    ELSE IF hi = lo + 1 THEN RightSteps(f, lo)
    ELSE RightChain(f, (lo + hi) \div 2, hi) \o RightChain(f, lo, (lo + hi) \div 2)

\* the border of a shape with one run in each row, from its top-left pixel
\* down its left side and back up its right side
Border(f) ==
    LET top == TopRow(f)
        bot == BottomRow(f)
        down == << <<LeftEnd(f, top), top>> >> \o LeftChain(f, top, bot)
        across == IF RightEnd(f, bot) # LeftEnd(f, bot)
                  THEN << <<RightEnd(f, bot), bot>> >> ELSE <<>>
        up == RightChain(f, top, bot)
        all == down \o across \o up
    IN  IF Len(all) > 1 /\ all[Len(all)] = all[1] THEN SubSeq(all, 1, Len(all) - 1) ELSE all

Sgn(n) == IF n > 0 THEN 1 ELSE IF n < 0 THEN -1 ELSE 0

\* CHAIN_APPROX_SIMPLE: of each horizontal, vertical and diagonal segment of
\* the border only the end points are kept
ApproxSimple(pts) ==
    LET n == Len(pts)
        Dir(i, j) == <<Sgn(pts[j][1] - pts[i][1]), Sgn(pts[j][2] - pts[i][2])>>
        Prev(i) == IF i = 1 THEN n ELSE i - 1
        Succ(i) == IF i = n THEN 1 ELSE i + 1
        kept == {i \in 1..n : n <= 2 \/ Dir(Prev(i), i) # Dir(i, Succ(i))}
        Nth(j) == CHOOSE i \in kept : Cardinality({m \in kept : m <= i}) = j
    IN  [j \in 1..Cardinality(kept) |-> pts[Nth(j)]]

\* twice the area between the contour's passage through row y and through
\* row y + 1
StripArea2(f, y) ==
    LET a == LeftEnd(f, y)
        a2 == LeftEnd(f, y + 1)
        b == RightEnd(f, y)
        b2 == RightEnd(f, y + 1)
        l == IF a2 > a THEN a2 - 1 ELSE a
        l2 == IF a2 < a THEN a - 1 ELSE a2
        r == IF b2 < b THEN b2 + 1 ELSE b
        r2 == IF b2 > b THEN b + 1 ELSE b2
    IN  (r - l) + (r2 - l2)

RECURSIVE Area2(_, _, _)
Area2(f, lo, hi) ==
    IF lo >= hi THEN 0
    ELSE IF hi = lo + 1 THEN StripArea2(f, lo)
    ELSE Area2(f, lo, (lo + hi) \div 2) + Area2(f, (lo + hi) \div 2, hi)

\* twice cv2.contourArea(contour): the polygon through the border pixels
RunsContourArea2(f) == Area2(f, TopRow(f), BottomRow(f))

\* cv2.boundingRect(contour)
RunsBoundingRect(f) ==
    LET x0 == CHOOSE a \in {q[2] : q \in f} : \A q \in f : a <= q[2]
        x1 == CHOOSE b \in {q[3] : q \in f} : \A q \in f : q[3] <= b
    IN  <<x0, TopRow(f), x1 - x0 + 1, BottomRow(f) - TopRow(f) + 1>>

\* `cv2.contourArea(contour) < 100` (lines 91 and 116)
RunsTooSmall(f) == RunsContourArea2(f) < 2 * MinContourArea

\* lines 79-83
CircleColorMask(image, label) ==
    RunsClose(RunsOpen(RunsInRange(image, color_ranges[label][1], color_ranges[label][2]),
                       noise_kernel, image),
              noise_kernel, image)

\* line 70
CircleChalkMask(image) ==
    RunsInRange(image, <<0, 0, chalk_threshold>>, <<180, chalk_saturation_threshold, 255>>)

\* lines 86-96
CircleDilatedHoldMask(image, cmask) ==
    LET initial_contours == RunsFindContours(cmask, image)
        hold_area_mask == UNION {initial_contours[i] :
                                    i \in {j \in 1..Len(initial_contours) :
                                              ~RunsTooSmall(initial_contours[j])}}
    IN  RunsDilate(hold_area_mask, dilate_kernel, image)

\* lines 99-108
CircleFinalContours(image, cmask, dilated_hold_mask) ==
    LET valid_chalk_mask == RunsIntersect(CircleChalkMask(image), dilated_hold_mask)
        combined_mask == RunsUnion(cmask, valid_chalk_mask, image)
    IN  RunsFindContours(RunsClose(combined_mask, connect_kernel, image), image)

\* the number of pixels of a set of intervals, and of the rows lo .. hi of a
\* mask
RECURSIVE IntervalSum(_)
IntervalSum(I) ==
    IF I = {} THEN 0
    ELSE LET i == CHOOSE j \in I : TRUE
         IN  i[2] - i[1] + 1 + IntervalSum(I \ {i})

RECURSIVE CountRows(_, _, _)
CountRows(mask, lo, hi) ==
    IF lo = hi THEN IntervalSum(RowOf(mask, lo))
    ELSE CountRows(mask, lo, (lo + hi) \div 2) + CountRows(mask, (lo + hi) \div 2 + 1, hi)

\* cv2.countNonZero(mask)
RunsCountNonZero(mask, image) == CountRows(mask, 0, image.height - 1)

\* lines 120-130: the mean over the pixels inside the contour that are not
\* chalk, those of the circle and those of the wall
CircleRepresentativeColor(image, f, label) ==
    LET inDisc == RunsCountNonZero(RunsIntersect(f, DiscRuns(image)), image)
        nDisc == IF IsChalk(BGR2HSV(image.disc.bgr)) THEN 0 ELSE inDisc
        nWall == IF IsChalk(BGR2HSV(image.wall)) THEN 0
                 ELSE RunsCountNonZero(f, image) - inDisc
        n == nDisc + nWall
    IN  IF n > 0
        THEN [k \in 1..3 |-> (nDisc * image.disc.bgr[k] + nWall * image.wall[k]) \div n]
        ELSE visualization_colors[label]

\* lines 132-148
CircleMakeHold(image, f, label) ==
    LET br == RunsBoundingRect(f)
    IN  [position |-> [x |-> br[1] + br[3] \div 2, y |-> br[2] + br[4] \div 2],
         size |-> [width |-> br[3], height |-> br[4]],
         contour |-> ApproxSimple(Border(f)),
         color |-> CircleRepresentativeColor(image, f, label)]

\* get_route_by_color of a picture of a circle (lines 155-170)
CircleCall(data, label) ==
    /\ pc = "idle"
    /\ calls = 0
    /\ hpc = "none"
    /\ calls' = calls + 1
    /\ method' = "get_route_by_color"
    /\ image_data' = data
    /\ target_color' = label
    /\ cancel_token' = "none"
    /\ FreshFrame
    /\ IF IsUnsupported(label)
       THEN /\ pc' = "failed"
            /\ exc' = [type |-> "ValueError", at |-> "get_route_by_color",
                       message |-> "Unsupported color", status_code |-> 0]
       ELSE /\ pc' = "circle_imdecode"
            /\ exc' = NoExc
    /\ UNCHANGED <<first_run, http>>
    /\ UNCHANGED aux

\* lines 63-72
CircleImdecode ==
    /\ pc = "circle_imdecode"
    /\ img' = DecodeCircle(image_data)
    /\ results' = EmptyDict
    /\ color_idx' = 1
    /\ pc' = "circle_for_color"
    /\ UNCHANGED <<calls, args, contours, contour_idx, holds, hold_mask, color_mask,
                   job_ret, ret_line, exc, ret, first_run, http>>
    /\ UNCHANGED aux

\* lines 74-83 and 153: head of the colour loop, then the mask of the label
CircleForColor ==
    /\ pc = "circle_for_color"
    /\ IF color_idx > Len(ColorOrder)
       THEN /\ job_ret' = ReturnResults(results)
            /\ ret_line' = 153
            /\ pc' = "returned"
            /\ UNCHANGED color_mask
       ELSE IF IsCancelled(cancel_token)
       THEN /\ job_ret' = CancelledResult(results)
            /\ ret_line' = 76
            /\ pc' = "returned"
            /\ UNCHANGED color_mask
       ELSE /\ color_mask' = CircleColorMask(img, ColorOrder[color_idx])
            /\ pc' = "circle_hold_area"
            /\ UNCHANGED <<job_ret, ret_line>>
    /\ UNCHANGED <<calls, args, img, color_idx, contours, contour_idx, holds, results,
                   hold_mask, exc, ret, first_run, http>>
    /\ UNCHANGED aux

\* lines 86-96: the large regions of the label, dilated
CircleHoldArea ==
    /\ pc = "circle_hold_area"
    /\ hold_mask' = CircleDilatedHoldMask(img, color_mask)
    /\ pc' = "circle_contours"
    /\ UNCHANGED <<calls, args, img, color_idx, contours, contour_idx, holds, results,
                   color_mask, job_ret, ret_line, exc, ret, first_run, http>>
    /\ UNCHANGED aux

\* lines 99-110: the chalk near those regions is added, the gaps are closed
\* and the final contours are found
CircleContours ==
    /\ pc = "circle_contours"
    /\ contours' = CircleFinalContours(img, color_mask, hold_mask)
    /\ holds' = <<>>
    /\ contour_idx' = 1
    /\ pc' = "circle_for_contour"
    /\ UNCHANGED <<calls, args, img, color_idx, results, hold_mask, color_mask, job_ret,
                   ret_line, exc, ret, first_run, http>>
    /\ UNCHANGED aux

\* lines 111-151: head and body of the contour loop
CircleForContour ==
    /\ pc = "circle_for_contour"
    /\ IF contour_idx > Len(contours)
       THEN /\ results' = IF holds # <<>>
                          THEN [c \in DOMAIN results \cup {ColorOrder[color_idx]} |->
                                   IF c = ColorOrder[color_idx] THEN holds ELSE results[c]]
                          ELSE results
            /\ color_idx' = color_idx + 1
            /\ pc' = "circle_for_color"
            /\ UNCHANGED <<contour_idx, holds, job_ret, ret_line>>
       ELSE IF IsCancelled(cancel_token)
       THEN /\ job_ret' = CancelledResult(results)
            /\ ret_line' = 113
            /\ pc' = "returned"
            /\ UNCHANGED <<contour_idx, holds, results, color_idx>>
       ELSE /\ holds' = IF RunsTooSmall(contours[contour_idx])
                        THEN holds
                        ELSE Append(holds, CircleMakeHold(img, contours[contour_idx],
                                                          ColorOrder[color_idx]))
            /\ contour_idx' = contour_idx + 1
            /\ pc' = "circle_for_contour"
            /\ UNCHANGED <<results, color_idx, job_ret, ret_line>>
    /\ UNCHANGED <<calls, args, img, contours, hold_mask, color_mask, exc, ret, first_run,
                   http>>
    /\ UNCHANGED aux

NextCircle ==
    \/ \E d \in CirclePictures, c \in CircleLabels : CircleCall(d, c)
    \/ CircleImdecode
    \/ CircleForColor
    \/ CircleHoldArea
    \/ CircleContours
    \/ CircleForContour
    \/ Resume

SpecCircle == Init /\ [][NextCircle]_vars

(* ------------------------------------------------------------------ *)
(* identify_all_routes beside get_route_by_color                      *)
(* ------------------------------------------------------------------ *)
\* target_color values that are keys of color_ranges
RouteLabels == {"red", "pink", "white", "blue"}

\* the pictures both methods are called with: two blobs of 11 x 11 pixels,
\* red and red, magenta and red, white and red; and bytes that are no picture
RouteInputs ==
    {d \in Pictures : /\ Cardinality(d.blobs) = 2
                      /\ \A b \in d.blobs : b.w = 11 /\ b.h = 11}
    \cup {Undecodable}

\* cancel_token values of a call whose token nobody sets
QuietTokens == {"none", "clear"}

\* identify_all_routes (lines 176-187): it awaits process_image with its own
\* arguments
identify_all_routes(data, tok) ==
    /\ CanCall
    /\ hpc = "none"
    /\ calls' = calls + 1
    /\ method' = "identify_all_routes"
    /\ image_data' = data
    /\ target_color' = ""
    /\ cancel_token' = tok
    /\ FreshFrame
    /\ exc' = NoExc
    /\ pc' = "imdecode"
    /\ UNCHANGED <<first_run, http>>
    /\ UNCHANGED aux

\* line 187: identify_all_routes returns what process_image returned, or
\* lets its exception through
ReturnAllRoutes ==
    /\ pc \in {"returned", "raised"}
    /\ method = "identify_all_routes"
    /\ IF pc = "raised"
       THEN /\ pc' = "failed"
            /\ ret' = Unset
            /\ UNCHANGED all_routes
       ELSE /\ pc' = "done"
            /\ ret' = job_ret
            /\ all_routes' = [data |-> image_data, result |-> ret']
    /\ img' = Unset
    /\ color_idx' = 0
    /\ contours' = <<>>
    /\ contour_idx' = 0
    /\ holds' = <<>>
    /\ results' = Unset
    /\ hold_mask' = Unset
    /\ color_mask' = Unset
    /\ UNCHANGED <<calls, args, job_ret, ret_line, exc, first_run, http, render, pool>>

NextRoutes ==
    \/ \E d \in RouteInputs, tok \in QuietTokens : identify_all_routes(d, tok)
    \/ \E d \in RouteInputs, c \in RouteLabels, tok \in QuietTokens :
          get_route_by_color(d, c, tok)
    \/ Imdecode
    \/ CvtColor
    \/ ForColor
    \/ ForContour
    \/ Resume
    \/ ReturnAllRoutes

SpecRoutes == Init /\ [][NextRoutes]_vars

(* ------------------------------------------------------------------ *)
(* Properties                                                         *)
(* ------------------------------------------------------------------ *)
\* the nine labels of the recognised set
RecognizedLabels ==
    {"red", "blue", "green", "yellow", "purple", "orange", "pink", "white", "black"}

\* the job of the current call has ended
JobEnded == pc \in {"returned", "raised", "done", "failed"}

\* the holds of a mapping from labels to hold sequences
HoldsOf(d) == UNION {{d[c][i] : i \in 1..Len(d[c])} : c \in DOMAIN d}

\* C1: get_route_by_color with a label outside the nine recognised ones fails
\* with the unsupported-label error, and the job that decodes the bytes is
\* never started, whatever the bytes and the token are.
C1_UnsupportedLabelFails ==
    (method = "get_route_by_color" /\ target_color \notin RecognizedLabels)
        => /\ pc = "failed"
           /\ exc.type = "ValueError"
           /\ exc.message = "Unsupported color"
           /\ img = Unset
           /\ job_ret = Unset

C1_Witness ==
    /\ method = "get_route_by_color"
    /\ target_color = "teal"
    /\ image_data.decodable
    /\ cancel_token = "set"
    /\ pc = "failed"
    /\ exc.type = "ValueError"

\* C2: when the token is set as the pipeline reaches the checkpoint of the
\* first label, the job returns the empty mapping at once, and process_image
\* returns that empty mapping to its caller.
C2_CancelledAtFirstCheckpoint ==
    /\ [][(pc = "for_color" /\ color_idx = 1 /\ cancel_token = "set")
            => (pc' = "returned" /\ job_ret' = EmptyDict /\ DOMAIN job_ret' = {})]_vars
    /\ [][(pc = "returned" /\ method = "process_image" /\ ret_line = 76 /\ color_idx = 1)
            => (pc' = "done" /\ ret' = EmptyDict)]_vars

\* the job of a picture with a red hold stopped at the first checkpoint
C2_Witness ==
    /\ method = "process_image"
    /\ pc = "returned"
    /\ ret_line = 76
    /\ color_idx = 1
    /\ results = EmptyDict
    /\ job_ret = EmptyDict
    /\ \E b \in image_data.blobs : b.bgr = Red /\ b.w = 11 /\ b.h = 11

\* C3 (as claimed): with the token set before the call, process_image and
\* remove_background return their empty result and raise nothing, whatever
\* the bytes are.
C3_PresetTokenNeverRaises ==
    (method \in {"process_image", "remove_background"} /\ cancel_token = "set" /\ JobEnded)
        => /\ pc \in {"returned", "done"}
           /\ job_ret = IF method = "process_image" THEN EmptyDict ELSE EmptyRemoval

\* C4: every hold has a positive width and height and a position inside the
\* picture.
HoldInside(h) ==
    /\ h.size.width > 0
    /\ h.size.height > 0
    /\ 0 <= h.position.x /\ h.position.x < imdecode(image_data).width
    /\ 0 <= h.position.y /\ h.position.y < imdecode(image_data).height

C4_HoldsInsidePicture ==
    /\ \A i \in 1..Len(holds) : HoldInside(holds[i])
    /\ (results # Unset) => \A h \in HoldsOf(results) : HoldInside(h)
    /\ (pc \in {"returned", "done"} /\ method = "process_image")
          => \A h \in HoldsOf(job_ret) : HoldInside(h)
    /\ (pc = "done" /\ method = "get_route_by_color")
          => \A i \in 1..Len(ret.holds) : HoldInside(ret.holds[i])

\* a returned hold whose box touches the right and bottom border
C4_Witness ==
    /\ pc = "done"
    /\ method = "process_image"
    /\ \E h \in HoldsOf(ret) :
          /\ h.position.x - h.size.width \div 2 + h.size.width = imdecode(image_data).width
          /\ h.position.y - h.size.height \div 2 + h.size.height = imdecode(image_data).height
          /\ h.size.width = 11

\* C5: a final contour of area below 100 yields no hold, and one of area
\* exactly 100 (or more) yields one: the holds collected so far are those of
\* the contours processed so far whose area is at least 100.
C5_AreaThreshold ==
    (pc = "for_contour") =>
        LET done == 1..(contour_idx - 1)
            kept == {i \in done : contourArea(contours[i]) >= 100}
        IN  /\ Len(holds) = Cardinality(kept)
            /\ \A i \in kept :
                  \E j \in 1..Len(holds) : holds[j].contour = ContourPoints(contours[i])
            /\ \A i \in done \ kept :
                  \A j \in 1..Len(holds) : holds[j].contour # ContourPoints(contours[i])

\* one contour of area exactly 100 was kept and one of area 99 was dropped
C5_Witness ==
    /\ pc = "for_contour"
    /\ Len(contours) = 2
    /\ contour_idx = 3
    /\ contourArea(contours[1]) = 100
    /\ contourArea(contours[2]) = 99
    /\ Len(holds) = 1

C7_NoHoldUnderTwoLabels ==
    (pc = "returned" /\ method = "process_image") =>
        \A c1, c2 \in DOMAIN job_ret :
            c1 # c2 =>
                \A i \in 1..Len(job_ret[c1]), j \in 1..Len(job_ret[c2]) :
                    ~ /\ job_ret[c1][i].position = job_ret[c2][j].position
                      /\ job_ret[c1][i].size = job_ret[c2][j].size
                      /\ job_ret[c1][i].contour = job_ret[c2][j].contour

\* C9 (as claimed): bytes that do not decode, with the token not set, make
\* process_image and remove_background fail with an InvalidImage error raised
\* at decoding.
C9_InvalidImageAtDecoding ==
    (/\ method \in {"process_image", "remove_background"}
     /\ image_data # Unset
     /\ ~image_data.decodable
     /\ cancel_token # "set"
     /\ JobEnded)
        => /\ pc \in {"raised", "failed"}
           /\ exc.type = "InvalidImage"
           /\ exc.at = "imdecode"


\* C8 (as claimed): an identify-route request with an image upload, a
\* connected client and a colour that is no recognised label is answered with
\* status 400 and the unsupported-colour message.
C8_UnsupportedColorIs400 ==
    (/\ endpoint = "identify_route"
     /\ status # 0
     /\ content_type = "image/png"
     /\ Lower(color) \notin RecognizedLabels
     /\ ~disconnected)
        => /\ status = 400
           /\ detail = "Unsupported color"

\* C10 (as claimed): a visualize-route request with a decodable image, a
\* recognised colour and a client that stays connected (and a handler task
\* that is not cancelled) succeeds and returns the holds together with a
\* flat and an overlay visualization.
C10_VisualizeRouteSucceeds ==
    (/\ endpoint = "visualize_route"
     /\ status # 0
     /\ content_type = "image/png"
     /\ image_data.decodable
     /\ Lower(color) \in RecognizedLabels
     /\ ~disconnected
     /\ raised.type # "CancelledError")
        => /\ status = 200
           /\ {"holds", "visualization", "overlay"} \subseteq DOMAIN body

\* holds_by_color holds one hold under one label
SingleHold(d) ==
    /\ Cardinality(DOMAIN d) = 1
    /\ \A c \in DOMAIN d : Len(d[c]) = 1

\* C11 (as claimed): the opaque rendering of a single hold is a canvas of the
\* size of the picture that is black everywhere, except that the pixels of
\* the hold's filled rectangle have exactly the hold's representative colour
\* and the pixels of its outline are white.
C11_OpaqueSingleHold ==
    (method = "create_hold_visualization" /\ pc = "done" /\ SingleHold(holds_by_color)) =>
        LET c == CHOOSE k \in DOMAIN holds_by_color : TRUE
            h == holds_by_color[c][1]
        IN  /\ DOMAIN visualization = Pixels(imdecode(image_data))
            /\ \A p \in Pixels(imdecode(image_data)) :
                  visualization[p] =
                      IF OnOutline(p, Corner1(h), Corner2(h), 2) THEN <<255, 255, 255>>
                      ELSE IF InRectangle(p, Corner1(h), Corner2(h)) THEN h.color
                      ELSE <<0, 0, 0>>

\* the holds of a mapping with their labels, label by label in the order of
\* the labels, and in the order of discovery under one label
RECURSIVE Flatten(_, _)
Flatten(labels, d) ==
    IF labels = <<>> THEN <<>>
    ELSE [i \in 1..Len(d[Head(labels)]) |-> <<Head(labels), d[Head(labels)][i]>>]
         \o Flatten(Tail(labels), d)

\* the pixels a renderer touches for a hold: the rectangle and its outline
DrawnArea(p, h) ==
    InRectangle(p, <<Corner1(h)[1] - 1, Corner1(h)[2] - 1>>,
                   <<Corner2(h)[1] + 1, Corner2(h)[2] + 1>>)

\* C12: both renderers draw the holds label by label in the order of the
\* labels and, under one label, in the order of discovery: every pixel in the
\* drawn area of some hold shows the last such hold in that order, its white
\* outline or its fill in the opaque picture, its outline in the overlay.
C12_LaterHoldVisible ==
    (pc = "done" /\ method \in {"create_hold_visualization", "create_overlay_visualization"}) =>
        LET order == Flatten(SelectSeq(ColorOrder, LAMBDA c : c \in DOMAIN holds_by_color),
                             holds_by_color)
        IN  \A p \in DOMAIN visualization :
                LET cover == {i \in 1..Len(order) : DrawnArea(p, order[i][2])}
                IN  cover # {} =>
                        LET last == CHOOSE i \in cover : \A j \in cover : j <= i
                            h == order[last][2]
                            bgr == visualization_colors[order[last][1]]
                        IN  IF method = "create_hold_visualization"
                            THEN visualization[p] =
                                    IF OnOutline(p, Corner1(h), Corner2(h), 2)
                                    THEN <<255, 255, 255>> ELSE bgr
                            ELSE OnOutline(p, Corner1(h), Corner2(h), 2)
                                    => visualization[p] = bgr

\* the opaque picture of a purple and a pink hold at the same place: the
\* pink one, drawn later, is the one to be seen
C12_Witness ==
    /\ pc = "done"
    /\ method = "create_hold_visualization"
    /\ DOMAIN holds_by_color = {"purple", "pink"}
    /\ holds_by_color["purple"][1].position = holds_by_color["pink"][1].position
    /\ visualization[<<holds_by_color["pink"][1].position.x,
                       holds_by_color["pink"][1].position.y>>] = visualization_colors["pink"]

\* the rectangle of pixels inside the contour of a hold
HoldRect(h) ==
    [x |-> h.contour[1][1], y |-> h.contour[1][2], w |-> h.size.width, h |-> h.size.height]

\* the pixels of rectangle r
RegionPixels(r) == (r.x..(r.x + r.w - 1)) \X (r.y..(r.y + r.h - 1))

\* the pixel values found in rectangle r that are not chalk
NonChalkValues(image, r) ==
    {v \in {PixelAt(image, p) : p \in RegionPixels(r)} : ~IsChalk(BGR2HSV(v))}

\* over the pixels of rectangle r that have one of the given values: their
\* number (k = 0) or the sum of their channel k (k = 1, 2, 3)
RECURSIVE ValueSum(_, _, _, _)
ValueSum(image, r, values, k) ==
    IF values = {} THEN 0
    ELSE LET v == CHOOSE e \in values : TRUE
             n == Cardinality({p \in RegionPixels(r) : PixelAt(image, p) = v})
         IN  n * (IF k = 0 THEN 1 ELSE v[k]) + ValueSum(image, r, values \ {v}, k)

\* the same over the pixels of r that are not chalk
NonChalkSum(image, r, k) == ValueSum(image, r, NonChalkValues(image, r), k)

\* C17 (as claimed): the color of every hold that detection returns lists the
\* red, the green and the blue component in this order, for the mean of the
\* hold's pixels and for the canonical colour of the label (which the source
\* writes as B, G, R).
C17_ColorIsRGB ==
    (pc = "returned" /\ method = "process_image") =>
        \A c \in DOMAIN job_ret : \A i \in 1..Len(job_ret[c]) :
            LET h == job_ret[c][i]
                image == imdecode(image_data)
                n == NonChalkSum(image, HoldRect(h), 0)
                canon == visualization_colors[c]
            IN  h.color = IF n > 0
                          THEN <<NonChalkSum(image, HoldRect(h), 3) \div n,
                                 NonChalkSum(image, HoldRect(h), 2) \div n,
                                 NonChalkSum(image, HoldRect(h), 1) \div n>>
                          ELSE <<canon[3], canon[2], canon[1]>>

\* C18: the colour of a hold is the mean (B, G, R, each truncated) of the
\* pixels inside its contour that are not chalk, and it is the canonical
\* colour of the label when there is no such pixel.
C18_MeanOfNonChalk ==
    (pc = "returned" /\ method = "process_image") =>
        \A c \in DOMAIN job_ret : \A i \in 1..Len(job_ret[c]) :
            LET h == job_ret[c][i]
                image == imdecode(image_data)
                n == NonChalkSum(image, HoldRect(h), 0)
            IN  /\ n > 0 => h.color = [k \in 1..3 |->
                                          NonChalkSum(image, HoldRect(h), k) \div n]
                /\ n = 0 => h.color = visualization_colors[c]

\* a dark red hold whose mask takes in a strip of white chalk and keeps the
\* colour of its own pixels, next to a hold of nothing but light grey chalk
\* that gets the canonical white
C18_Witness ==
    /\ pc = "returned"
    /\ method = "process_image"
    /\ DOMAIN job_ret = {"red", "white"}
    /\ job_ret["red"][1].size.width = 15
    /\ job_ret["red"][1].color = <<0, 0, 200>>
    /\ PixelAt(imdecode(image_data), <<12, 5>>) = <<255, 255, 255>>
    /\ job_ret["white"][1].color = <<255, 255, 255>>
    /\ PixelAt(imdecode(image_data), <<job_ret["white"][1].position.x,
                                       job_ret["white"][1].position.y>>) = <<220, 220, 220>>

\* pixel p belongs to a mask of the background service
Covered(mask, p) ==
    \/ \E r \in mask.rects : /\ r.x <= p[1] /\ p[1] < r.x + r.w
                             /\ r.y <= p[2] /\ p[2] < r.y + r.h
    \/ mask.wall /\ PixelAt(img, p) = img.wall /\ ~\E b \in img.blobs :
                             /\ b.x <= p[1] /\ p[1] < b.x + b.w
                             /\ b.y <= p[2] /\ p[2] < b.y + b.h

\* background isolation has returned its picture
IsolationReturned == pc = "returned" /\ method = "remove_background" /\ ret_line = 308

\* C13: in the picture a background isolation returns, the alpha of every
\* pixel is 255 when the pixel is in the final hold mask and 0 otherwise,
\* and the three colour channels are those of the decoded source picture.
C13_AlphaIsMask ==
    IsolationReturned =>
        LET rgba == job_ret.base64_image.pixels
        IN  /\ DOMAIN rgba = Pixels(img)
            /\ \A p \in Pixels(img) :
                  /\ rgba[p][4] \in {0, 255}
                  /\ rgba[p][4] = 255 <=> Covered(hold_mask, p)
                  /\ <<rgba[p][1], rgba[p][2], rgba[p][3]>> = PixelAt(img, p)

\* a returned picture in which a red hold is opaque and the wall is not
C13_Witness ==
    /\ IsolationReturned
    /\ job_ret.base64_image.pixels[<<12, 17>>] = <<0, 0, 255, 255>>
    /\ job_ret.base64_image.pixels[<<0, 0>>] = <<150, 150, 150, 0>>

\* C14 (as claimed): for each of the nine recognised labels, a region of
\* pixels in that label's colour range that is large enough to survive the
\* denoising is part of the combined colour mask of background isolation.
C14_MaskCoversEveryLabel ==
    (pc = "rb_encode") =>
        \A c \in RecognizedLabels : \A b \in img.blobs :
            (/\ inRange(BGR2HSV(b.bgr), color_ranges[c][1], color_ranges[c][2])
             /\ b.w >= 3 /\ b.h >= 3)
                => \A p \in RegionPixels(b) : Covered(color_mask, p)

\* the pixels inside a candidate contour whose colour is in one of the
\* ranges of the service
ColoredPixels(contour) ==
    {p \in RegionPixels(contour) :
        \E c \in DOMAIN hold_colors : InHoldColor(BGR2HSV(PixelAt(img, p)), c)}

\* a candidate contour was taken as a hold region: pixels of it are in the
\* final mask
Accepted(contour) == \E p \in RegionPixels(contour) : Covered(hold_mask, p)

\* C15 (as claimed): a candidate region is taken as a hold region only if
\* its pixels in the colour mask number more than 10% of its area.
C15_TenPercentColored ==
    (pc = "rb_encode") =>
        \A i \in 1..Len(contours) :
            Accepted(contours[i])
                => 10 * Cardinality(ColoredPixels(contours[i])) > contourArea(contours[i])

\* C16 (as claimed): a candidate region whose area is at least the minimum
\* hold size, 200 included, passes the area filter: when its shape is
\* admissible and more than 10% of it is coloured, it is taken as a hold
\* region.
C16_MinimumAreaIsKept ==
    (pc = "rb_encode") =>
        \A i \in 1..Len(contours) :
            (/\ contourArea(contours[i]) >= 200
             /\ CircularityOk(contours[i])
             /\ 10 * Cardinality(ColoredPixels(contours[i])) > contourArea(contours[i]))
                => Accepted(contours[i])

\* the requests to mounted routes whose job is running on a worker thread
RunningJobs ==
    {r \in 1..MaxRequests : /\ handlers[r].job = "running"
                            /\ handlers[r].endpoint \in MountedEndpoints}

\* C19 (as claimed): whatever the interleaving of the requests to the
\* service's endpoints, at most one pipeline job is executing at any time.
C19_OneJobAtATime == Cardinality(RunningJobs) <= 1

\* C20: the token of a request, once set, stays set for the rest of the
\* request, and it changes only in a step of the handler of its own request:
\* no step sets the tokens of two requests, and the token of a request whose
\* handler does not move stays as it is.
C20_TokenMonotonic ==
    [][\A r \in 1..MaxRequests :
          /\ handlers[r].cancel_token = "set" => handlers'[r].cancel_token = "set"
          /\ handlers'[r].cancel_token # handlers[r].cancel_token =>
                /\ handlers'[r].hpc # handlers[r].hpc
                /\ \A q \in 1..MaxRequests \ {r} : handlers'[q] = handlers[q]]_vars

\* two requests to the same route: the token of the first was set by its
\* cleanup task, that of the second, still awaiting its job, is clear
C20_Witness ==
    /\ handlers[1].endpoint = "identify_route"
    /\ handlers[2].endpoint = "identify_route"
    /\ handlers[1].hpc = "closed"
    /\ handlers[1].job = "returned"
    /\ ~handlers[1].disconnected
    /\ handlers[1].cancel_token = "set"
    /\ handlers[2].hpc = "await"
    /\ handlers[2].job = "running"
    /\ handlers[2].cancel_token = "clear"

\* C21: the pipeline looks at the token before it builds the mask of a label
\* and before it processes a contour: with the token set, a step of the job
\* appends no hold, enters the contour loop of no further label, and a step
\* taken at the head of the colour loop ends the job.
C21_CheckpointsStopThePipeline ==
    [][(/\ cancel_token = "set"
        /\ method \in {"process_image", "get_route_by_color"}
        /\ pc \in {"for_color", "for_contour"})
        => /\ holds' = holds
           /\ contours' = contours
           /\ pc' \in {"for_color", "returned"}
           /\ pc = "for_color" => pc' = "returned"
           /\ (pc = "for_contour" /\ contour_idx <= Len(contours))
                 => (pc' = "returned" /\ ret_line' = 113)]_vars

\* the token was set after the first of two red holds was emitted: the job
\* stopped before the second contour
C21_Witness ==
    /\ method = "process_image"
    /\ pc = "returned"
    /\ ret_line = 113
    /\ cancel_token = "set"
    /\ Len(contours) = 2
    /\ contour_idx = 2
    /\ Len(holds) = 1
    /\ contourArea(contours[2]) >= MinContourArea

Dist(a, b) == IF a >= b THEN a - b ELSE b - a

\* get_route_by_color has returned for the 200 x 200 black picture with the
\* red circle of radius 30 at (100, 100)
CircleDone ==
    /\ pc = "done"
    /\ method = "get_route_by_color"
    /\ image_data \in CirclePictures

\* C22: for that picture, get_route_by_color with "red" returns exactly one
\* hold, whose centre is within a pixel of (100, 100) and whose bounding box
\* is within two pixels of 60 x 60; with "blue" it returns no hold.
C22_RedCircleScenario ==
    CircleDone =>
        /\ ret.color = target_color
        /\ target_color = "red" =>
              /\ Len(ret.holds) = 1
              /\ Dist(ret.holds[1].position.x, 100) <= 1
              /\ Dist(ret.holds[1].position.y, 100) <= 1
              /\ Dist(ret.holds[1].size.width, 60) <= 2
              /\ Dist(ret.holds[1].size.height, 60) <= 2
        /\ target_color = "blue" => ret.holds = <<>>

\* the circle drawn with the pixels at a distance of at most 30: opening
\* removes the single pixels at its four ends, the hold is 59 x 59
C22_Witness ==
    /\ CircleDone
    /\ target_color = "red"
    /\ image_data.disc.raster = "euclid"
    /\ Len(ret.holds) = 1
    /\ ret.holds[1].position = [x |-> 100, y |-> 100]
    /\ ret.holds[1].size = [width |-> 59, height |-> 59]
    /\ ret.holds[1].color = <<0, 0, 255>>

\* C23: background isolation of a picture whose pixels all have one colour
\* ends without an error, and the alpha channel of the picture it returns is
\* uniform: 0 at every pixel or 255 at every pixel.
C23_UniformPictureUniformAlpha ==
    (/\ method = "remove_background"
     /\ image_data \in RbPictures
     /\ image_data.blobs = {})
        => /\ pc # "raised"
           /\ exc = NoExc
           /\ ret_line = 308 /\ pc \in {"returned", "done"} =>
                 LET rgba == job_ret.base64_image.pixels
                 IN  \/ \A p \in DOMAIN rgba : rgba[p][4] = 0
                     \/ \A p \in DOMAIN rgba : rgba[p][4] = 255

\* a picture that is red everywhere comes back fully transparent
C23_Witness ==
    /\ IsolationReturned
    /\ image_data.blobs = {}
    /\ image_data.wall = Red
    /\ color_mask.wall
    /\ \A p \in Pixels(img) : job_ret.base64_image.pixels[p] = <<0, 0, 255, 0>>

\* pixel p lies in one of the rectangles of a mask
InMask(rects, p) ==
    \E r \in rects : /\ r.x <= p[1] /\ p[1] < r.x + r.w
                     /\ r.y <= p[2] /\ p[2] < r.y + r.h

\* pixel p is at most d pixels away, along both axes, from rectangle r
Near(r, p, d) ==
    /\ r.x - d <= p[1] /\ p[1] <= r.x + r.w - 1 + d
    /\ r.y - d <= p[2] /\ p[2] <= r.y + r.h - 1 + d

\* the pixels the combined mask of the current label has and its colour mask
\* has not
Added == {p \in Pixels(img) : InMask(hold_mask, p) /\ ~InMask(color_mask, p)}

\* the chalk pixels among them
AddedChalk == {p \in Added : IsChalk(BGR2HSV(PixelAt(img, p)))}

\* C24: in the detection of a label, a chalk pixel that is not in the label's
\* colour mask is in the combined mask (before the closing) only if it lies
\* within the dilation, by dilate_kernel, of a region of the colour mask
\* whose contour area is at least 100; the combined mask holds nothing but
\* the colour mask and chalk.
C24_ChalkOnlyNearHolds ==
    (pc = "for_contour" /\ contour_idx = 1 /\ method = "process_image") =>
        \A p \in Added :
           /\ IsChalk(BGR2HSV(PixelAt(img, p)))
           /\ \E q \in color_mask : /\ (q.w - 1) * (q.h - 1) >= MinContourArea
                                    /\ Near(q, p, dilate_kernel \div 2)

\* the chalk strip beside the dark red hold is added for "red", the chalked
\* hold in the far corner is not
C24_Witness ==
    /\ pc = "for_contour"
    /\ method = "process_image"
    /\ ColorOrder[color_idx] = "red"
    /\ image_data.blobs = ChalkedHold \cup ChalkOnly
    /\ <<12, 3>> \in AddedChalk
    /\ ~InMask(hold_mask, <<ImgW - 5, ImgH - 5>>)

\* chalk beside a red region that is too small is not added
C24_SmallWitness ==
    /\ pc = "for_contour"
    /\ ColorOrder[color_idx] = "red"
    /\ image_data.blobs = SmallChalkedHold
    /\ color_mask # {}
    /\ AddedChalk = {}

\* the smallest and the largest of a non-empty set of integers
MinOf(S) == CHOOSE m \in S : \A o \in S : m <= o
MaxOf(S) == CHOOSE m \in S : \A o \in S : o <= m

\* p lies in the bounding box of the contour of hold h: the columns and rows
\* between the extreme points of the contour, both included
InBoundingBox(p, h) ==
    LET xs == {h.contour[i][1] : i \in 1..Len(h.contour)}
        ys == {h.contour[i][2] : i \in 1..Len(h.contour)}
    IN  /\ MinOf(xs) <= p[1] /\ p[1] <= MaxOf(xs)
        /\ MinOf(ys) <= p[2] /\ p[2] <= MaxOf(ys)

\* C25 (as claimed): for every hold of a detection result a renderer has
\* drawn, the pixels of the rectangle the renderer fills are exactly the
\* pixels of the hold's bounding box, whatever the parity of its width and
\* height.
C25_FillIsBoundingBox ==
    (/\ method \in {"create_hold_visualization", "create_overlay_visualization"}
     /\ pc = "done"
     /\ exc = NoExc) =>
        \A c \in DOMAIN holds_by_color :
           \A i \in 1..Len(holds_by_color[c]) :
              \A p \in DOMAIN visualization :
                 InRectangle(p, Corner1(holds_by_color[c][i]), Corner2(holds_by_color[c][i]))
                    <=> InBoundingBox(p, holds_by_color[c][i])

\* the handler found its client gone at one of its two checks
FoundDisconnected ==
    /\ hpc = "closed"
    /\ raised.type = "HTTPException"
    /\ raised.message = "Client disconnected"

\* C26 (as claimed): a request whose handler finds the client disconnected,
\* before or after the processing, ends with status 499; when the client is
\* found gone before the processing, the pipeline has not been called.
C26_DisconnectIs499 ==
    FoundDisconnected =>
        /\ status = 499
        /\ method = "none" => pc = "idle"

\* the job of process_image ended at one of its checkpoints
StoppedAtCheckpoint ==
    /\ method = "process_image"
    /\ ret_line \in {76, 113}
    /\ pc \in {"returned", "done"}

\* C27: when process_image observes the cancellation at a checkpoint, the
\* job returns the empty mapping and the caller receives it, even when the
\* holds of earlier labels had been collected: no label of results is
\* returned.
C27_CancelledRunReturnsNothing ==
    StoppedAtCheckpoint =>
        /\ DOMAIN job_ret = {}
        /\ pc = "done" => DOMAIN ret = {}

\* the token was set after the holds of "red" were collected: the job stops
\* at a later label and returns nothing
C27_Witness ==
    /\ StoppedAtCheckpoint
    /\ pc = "returned"
    /\ color_idx > 1
    /\ "red" \in DOMAIN results
    /\ Len(results["red"]) >= 1
    /\ DOMAIN job_ret = {}

\* C28: with a token that is never set, get_route_by_color(image, L) returns
\* L as color and, as holds, the sequence identify_all_routes(image) has
\* under L, or the empty sequence when L is no key of it; every key of the
\* mapping identify_all_routes returns has at least one hold.
C28_RouteIsRestriction ==
    /\ (/\ method = "get_route_by_color"
        /\ pc = "done"
        /\ all_routes # Unset
        /\ all_routes.data = image_data)
          => /\ ret.color = target_color
             /\ target_color \in DOMAIN all_routes.result
                   => ret.holds = all_routes.result[target_color]
             /\ target_color \notin DOMAIN all_routes.result => ret.holds = <<>>
    /\ all_routes # Unset => \A c \in DOMAIN all_routes.result : Len(all_routes.result[c]) >= 1

\* get_route_by_color returned the two red holds identify_all_routes had
\* found in the same picture, beside which there is no other key
C28_Witness ==
    /\ method = "get_route_by_color"
    /\ pc = "done"
    /\ target_color = "red"
    /\ all_routes # Unset
    /\ all_routes.data = image_data
    /\ DOMAIN all_routes.result = {"red"}
    /\ Len(ret.holds) = 2
    /\ ret.holds = all_routes.result["red"]

\* a label that is no key of the mapping gives the empty sequence
C28_EmptyWitness ==
    /\ method = "get_route_by_color"
    /\ pc = "done"
    /\ target_color = "blue"
    /\ all_routes # Unset
    /\ all_routes.data = image_data
    /\ DOMAIN all_routes.result # {}
    /\ ret.holds = <<>>

\* C29: while the job of a request runs on the worker thread, the token of
\* the request is set only by the cancellation of the handler's task; while
\* the job of a client that has gone runs and the task is not cancelled the
\* token stays clear, and a job stops at a checkpoint only after such a
\* cancellation, never because of the disconnect.
C29_DisconnectSeenAfterJob ==
    /\ [][\A r \in 1..MaxRequests :
            (/\ handlers[r].job = "running"
             /\ handlers[r].cancel_token # "set"
             /\ handlers'[r].cancel_token = "set")
               => (~handlers[r].cancelled /\ handlers'[r].cancelled)]_vars
    /\ [](\A r \in 1..MaxRequests :
            /\ (/\ handlers[r].job = "running"
                /\ handlers[r].disconnected
                /\ ~handlers[r].cancelled) => handlers[r].cancel_token = "clear"
            /\ handlers[r].job = "stopped" => handlers[r].cancelled
            /\ (/\ handlers[r].disconnected
                /\ handlers[r].cancel_token = "set"
                /\ ~handlers[r].cancelled) => handlers[r].job \in {"none", "returned"})

\* the client of a request went away while its job was running: the job
\* returned, and only then did the handler set the token
C29_Witness ==
    \E r \in 1..MaxRequests :
       /\ handlers[r].endpoint = "identify_route"
       /\ handlers[r].disconnected
       /\ ~handlers[r].cancelled
       /\ handlers[r].job = "returned"
       /\ handlers[r].hpc = "closed"
       /\ handlers[r].cancel_token = "set"

\* the client is gone, the job runs on, the token is clear
C29_RunningWitness ==
    \E r \in 1..MaxRequests :
       /\ handlers[r].disconnected
       /\ handlers[r].job = "running"
       /\ handlers[r].hpc = "await"
       /\ handlers[r].cancel_token = "clear"

\* a job stopped at a checkpoint after the task of its handler was cancelled
C29_StoppedWitness ==
    \E r \in 1..MaxRequests : handlers[r].job = "stopped" /\ handlers[r].cancelled

====
